---- MODULE Spec2Model ----
(***************************************************************************)
(* A/B test manager (src/infrastructure/lambda/ab_test_manager/index.py):  *)
(* the handler's six actions over the two DynamoDB tables, the hash-based  *)
(* variant assignment and the mean/threshold significance engine.          *)
(* Model retraining trigger                                                *)
(* (src/infrastructure/lambda/model_retraining_trigger/index.py): the      *)
(* weighted retraining decision and the check of all models.               *)
(*                                                                         *)
(* The specifications of the module share its variables:                   *)
(*   Spec        the handler workflow over the config and results tables   *)
(*   SpecVariant determine_user_variant called directly while the clock    *)
(*               and the results table change around it                    *)
(*   SpecSplit   create_test with any integer traffic_split, and the       *)
(*               assignments that follow                                   *)
(*   SpecStat    analyze_results_by_variant, calculate_statistical_        *)
(*               significance and generate_test_recommendations applied    *)
(*               to result lists drawn from a bounded set                  *)
(*   SpecPerm    analyze_results_by_variant in double arithmetic on        *)
(*               reorderings of a result list                              *)
(*   SpecDecide  make_retraining_decision on every combination of          *)
(*               indicators                                                *)
(*   SpecRetrain check_all_models_for_retraining with reads that may fail, *)
(*               and the failing reads of assign_user and analyze_test     *)
(*   SpecDegrade the same check on metric histories around the minimum     *)
(*               lengths and the thresholds of                             *)
(*               analyze_performance_degradation                           *)
(*   SpecConcurrent assign_user invocations interleaved with each other    *)
(*               and with create_test and end_test                         *)
(*   SpecTotal   every action of both handlers, with calls that raise      *)
(***************************************************************************)
EXTENDS Integers, Sequences, FiniteSets, TLC

VARIABLES
    configs,      \* AB_TEST_CONFIGS_TABLE: test_id -> item, or NoItem
    results,      \* AB_TEST_RESULTS_TABLE: items in put order (sort key timestamp)
    now,          \* datetime.utcnow(), in days
    response,     \* the last handler response
    request,      \* the user_id and model_name keys of the last event
    calls,        \* direct calls of determine_user_variant, in order: arguments, result
    statItems,    \* the result list handed to analyze_results_by_variant
    statMetrics,  \* the success_metrics handed to analyze_results_by_variant
    statOut,      \* analysis, significance and recommendations computed from them
    permItems,    \* two result lists, the second a reordering of the first
    permOut,      \* the analysis and what follows from it, for each of the two
    decideIn,     \* the arguments of a make_retraining_decision call
    decideOut,    \* the decision it returned
    perfMetrics,  \* PERFORMANCE_METRICS_TABLE: model_name -> items of the last 7 days
    trainingJobs, \* the SageMaker training jobs created, in order
    notifications, \* the messages published to the SNS topic, in order
    run,          \* the check_all_models_for_retraining invocation in progress
    runs,         \* how many such invocations have begun
    retrainResponse, \* the last response of the retraining handler
    failedReads,  \* the store reads that raised during the last invocation
    inflight      \* concurrent assign_user invocations: where each one stands

permVars == <<permItems, permOut>>
decideVars == <<decideIn, decideOut>>
retrainVars == <<perfMetrics, trainingJobs, notifications, run, runs, retrainResponse,
                 failedReads>>

vars == <<configs, results, now, response, request, calls, statItems, statMetrics, statOut,
          permVars, decideVars, retrainVars, inflight>>

----------------------------------------------------------------------------
(* Bounds of the model *)

MaxTime == 2          \* the clock runs over 0..MaxTime
MaxResults == 2       \* items the results table holds at most
MaxCalls == 2         \* direct calls of determine_user_variant kept in the log

(* Program constants *)

HashBuckets == 100            \* hash_value % 100
MinSampleSize == 30           \* len(values) >= 30
EffectThreshold == 5          \* abs(improvement) >= 5
DefaultTrafficSplit == 50     \* event.get('traffic_split', 50)

----------------------------------------------------------------------------
(* Values *)

None == "<None>"              \* Python None (a missing event key)
NoItem == [absent |-> TRUE]   \* no item under that key
NoResponse == [action |-> "<none>"]
NoRequest == [user_id |-> "<None>", model_name |-> "<None>"]

Falsy(x) == x \in {None, ""}

Users == {"user-527", "user-437"}              \* the users of a direct call
Callers == {"user-437"}                        \* the users of the handler events
TestIds == {"3f2b8c1e-7a4d-4e9b-9c55-0d6a1b2e4f70", "a91d04c6-52be-4f18-8e3a-7c0f9b6d1e25"}
Models == {"recommendation", "sentiment"}     \* the models assign_user is asked for
TestedModels == {"recommendation"}             \* the models tests are created for
Splits == {0, 50, 100}                         \* the splits of a direct call
TrafficSplits == {DefaultTrafficSplit}         \* the splits tests are created with
DefaultSuccessMetrics == <<"recommendation_accuracy", "user_satisfaction">>

----------------------------------------------------------------------------
(* determine_user_variant *)

\* hashlib.md5(s.encode()).hexdigest(), as the sequence of its 32 hex digits,
\* for the strings "user_id:test_id" of the model.
Md5HexDigest(s) ==
    IF s = "user-527:3f2b8c1e-7a4d-4e9b-9c55-0d6a1b2e4f70" THEN  \* 1c4e519e4cd79b02d56c1d1a5706f8b4
      <<1,12,4,14,5,1,9,14,4,12,13,7,9,11,0,2,13,5,6,12,1,13,1,10,5,7,0,6,15,8,11,4>>
    ELSE IF s = "user-527:a91d04c6-52be-4f18-8e3a-7c0f9b6d1e25" THEN  \* 17ec58af7ff8ad58ae855d22403669a9
      <<1,7,14,12,5,8,10,15,7,15,15,8,10,13,5,8,10,14,8,5,5,13,2,2,4,0,3,6,6,9,10,9>>
    ELSE IF s = "user-437:3f2b8c1e-7a4d-4e9b-9c55-0d6a1b2e4f70" THEN  \* 1881578d9ccc27c4ba87c509a31ca8ee
      <<1,8,8,1,5,7,8,13,9,12,12,12,2,7,12,4,11,10,8,7,12,5,0,9,10,3,1,12,10,8,14,14>>
    ELSE  \* "user-437:a91d04c6-52be-4f18-8e3a-7c0f9b6d1e25": 2a7342fa284475aaf5364991d4ec60c4
      <<2,10,7,3,4,2,15,10,2,8,4,4,7,5,10,10,15,5,3,6,4,9,9,1,13,4,14,12,6,0,12,4>>

\* int(hex, 16) % m, digit by digit (the 128-bit value itself is never built)
RECURSIVE HexModFrom(_, _, _, _)
HexModFrom(digits, i, acc, m) ==
    IF i > Len(digits) THEN acc
    ELSE HexModFrom(digits, i + 1, (acc * 16 + digits[i]) % m, m)

HexMod(digits, m) == HexModFrom(digits, 1, 0, m)

\* percentage = int(md5("user_id:test_id").hexdigest(), 16) % 100
HashPercentage(user_id, test_id) ==
    HexMod(Md5HexDigest(user_id \o ":" \o test_id), HashBuckets)

determine_user_variant_le(user_id, test_id, traffic_split) ==
    IF HashPercentage(user_id, test_id) <= traffic_split THEN "treatment" ELSE "control"

determine_user_variant_swapped(user_id, test_id, traffic_split) ==
    IF HashPercentage(user_id, test_id) < traffic_split THEN "control" ELSE "treatment"

\* the bucket moves with the clock
determine_user_variant_clock(user_id, test_id, traffic_split) ==
    IF (HashPercentage(user_id, test_id) + (HashBuckets - 1) * now) % HashBuckets
           < traffic_split
    THEN "treatment" ELSE "control"

determine_user_variant(user_id, test_id, traffic_split) ==
    IF HashPercentage(user_id, test_id) < traffic_split THEN "treatment" ELSE "control"

----------------------------------------------------------------------------
(* Exact arithmetic for the float computations: a number is a fraction in   *)
(* lowest terms with a positive denominator.                                 *)

Abs(n) == IF n < 0 THEN -n ELSE n

RECURSIVE Gcd(_, _)
Gcd(a, b) == IF b = 0 THEN a ELSE Gcd(b, a % b)

Rat(n, d) ==
    LET g == Gcd(Abs(n), Abs(d))
        s == IF d < 0 THEN -1 ELSE 1
    IN  [num |-> (s * n) \div g, den |-> (s * d) \div g]

Zero == [num |-> 0, den |-> 1]
RatInt(n) == [num |-> n, den |-> 1]
RatSub(a, b) == Rat(a.num * b.den - b.num * a.den, a.den * b.den)
RatDiv(a, b) == Rat(a.num * b.den, a.den * b.num)
RatMul(a, b) == Rat(a.num * b.num, a.den * b.den)
RatAbs(a) == [num |-> Abs(a.num), den |-> a.den]
RatGeq(a, b) == a.num * b.den >= b.num * a.den
RatGt(a, b) == a.num * b.den > b.num * a.den

RECURSIVE SumFrom(_, _)
SumFrom(values, i) == IF i > Len(values) THEN 0 ELSE values[i] + SumFrom(values, i + 1)
Sum(values) == SumFrom(values, 1)

Min(values) == CHOOSE v \in {values[i] : i \in DOMAIN values} :
                   \A j \in DOMAIN values : v <= values[j]
Max(values) == CHOOSE v \in {values[i] : i \in DOMAIN values} :
                   \A j \in DOMAIN values : v >= values[j]

Range(seq) == {seq[i] : i \in DOMAIN seq}

----------------------------------------------------------------------------
(* IEEE 754 binary64 arithmetic, for the computations whose rounding shows:  *)
(* a non-negative double is m * 2^e with m a natural number of exactly 53    *)
(* bits, written most significant bit first; 0.0 has no bits.                *)

MantissaBits == 53
GuardBits == 11

Zeros(k) == [i \in 1..k |-> 0]

HexDigitBits(h) == <<h \div 8, (h \div 4) % 2, (h \div 2) % 2, h % 2>>

RECURSIVE HexToBits(_, _)
HexToBits(digits, i) ==
    IF i > Len(digits) THEN <<>> ELSE HexDigitBits(digits[i]) \o HexToBits(digits, i + 1)

\* the double float.hex() prints as 0x1.<frac>p<p>, frac being 13 hex digits
FloatHex(frac, p) == [m |-> <<1>> \o HexToBits(frac, 1), e |-> p - (MantissaBits - 1)]

FloatZero == [m |-> <<>>, e |-> 0]

RECURSIVE StripZeros(_)
StripZeros(bits) ==
    IF bits = <<>> \/ bits[1] = 1 THEN bits ELSE StripZeros(Tail(bits))

\* the carry into bit i of a + b: some lower bit generates one and every bit
\* in between passes it on
CarryInto(a, b, i) ==
    \E j \in (i + 1)..Len(a) :
        /\ a[j] = 1 /\ b[j] = 1
        /\ \A k \in (i + 1)..(j - 1) : a[k] + b[k] = 1

\* the sum of two natural numbers given by their bits
BitsAdd(a, b) ==
    LET n == IF Len(a) > Len(b) THEN Len(a) ELSE Len(b)
        x == Zeros(n - Len(a)) \o a
        y == Zeros(n - Len(b)) \o b
        sum == [i \in 1..n |-> (x[i] + y[i] + (IF CarryInto(x, y, i) THEN 1 ELSE 0)) % 2]
    IN  IF CarryInto(x, y, 0) THEN <<1>> \o sum ELSE sum

\* bits * 2^e, with something non-zero below the last bit when sticky,
\* rounded to the nearest double, ties to even
FloatRound(bits, e, sticky) ==
    LET n == Len(bits)
    IN  IF n = 0 THEN FloatZero
        ELSE IF n <= MantissaBits
        THEN [m |-> bits \o Zeros(MantissaBits - n), e |-> e - (MantissaBits - n)]
        ELSE LET top == SubSeq(bits, 1, MantissaBits)
                 guard == bits[MantissaBits + 1]
                 rest == sticky \/ \E i \in (MantissaBits + 2)..n : bits[i] = 1
                 up == guard = 1 /\ (rest \/ top[MantissaBits] = 1)
                 rounded == IF up THEN BitsAdd(top, <<1>>) ELSE top
             IN  IF Len(rounded) > MantissaBits
                 THEN [m |-> SubSeq(rounded, 1, MantissaBits), e |-> e + (n - MantissaBits) + 1]
                 ELSE [m |-> rounded, e |-> e + (n - MantissaBits)]

\* x + y of two non-negative doubles
FloatAdd(x, y) ==
    IF x.m = <<>> THEN y
    ELSE IF y.m = <<>> THEN x
    ELSE LET e == IF x.e < y.e THEN x.e ELSE y.e
         IN  FloatRound(BitsAdd(x.m \o Zeros(x.e - e), y.m \o Zeros(y.e - e)), e, FALSE)

\* long division by n, four bits at a step
RECURSIVE BitsDivFrom(_, _, _, _, _)
BitsDivFrom(bits, n, i, rem, acc) ==
    IF i > Len(bits) THEN [quotient |-> acc, remainder |-> rem]
    ELSE LET r == 16 * rem + 8 * bits[i] + 4 * bits[i + 1] + 2 * bits[i + 2] + bits[i + 3]
         IN  BitsDivFrom(bits, n, i + 4, r % n, acc \o HexDigitBits(r \div n))

\* x / n of a non-negative double and a positive int below 2^5
FloatDivInt(x, n) ==
    IF x.m = <<>> THEN FloatZero
    ELSE LET d == BitsDivFrom(x.m \o Zeros(GuardBits), n, 1, 0, <<>>)
         IN  FloatRound(StripZeros(d.quotient), x.e - GuardBits, d.remainder # 0)

BitsLess(a, b) ==
    \E i \in 1..Len(a) : a[i] < b[i] /\ \A j \in 1..(i - 1) : a[j] = b[j]

\* x < y of two non-negative doubles
FloatLess(x, y) ==
    IF y.m = <<>> THEN FALSE
    ELSE IF x.m = <<>> THEN TRUE
    ELSE x.e < y.e \/ (x.e = y.e /\ BitsLess(x.m, y.m))

FloatGeq(x, y) == ~FloatLess(x, y)

----------------------------------------------------------------------------
(* analyze_results_by_variant *)

Variants == <<"control", "treatment">>

Get(item, key) == IF key \in DOMAIN item THEN item[key] ELSE None

\* the loop over results: an item is counted when it has a 'variant' key, a
\* truthy metric_name and a metric_value that is not None
Counted(item) ==
    /\ "variant" \in DOMAIN item
    /\ ~Falsy(Get(item, "metric_name"))
    /\ "metric_value" \in DOMAIN item

\* variant_data[variant][metric_name]: the values of the counted items of
\* that variant and metric, in list order
VariantData(items, variant, metric) ==
    LET counted == SelectSeq(items, LAMBDA item : /\ Counted(item)
                                                  /\ item.variant = variant
                                                  /\ item.metric_name = metric)
    IN  [i \in 1..Len(counted) |-> counted[i].metric_value]

MetricStats(values) ==
    IF Len(values) > 0
    THEN [count |-> Len(values),
          mean |-> Rat(Sum(values), Len(values)),
          min |-> Min(values),
          max |-> Max(values),
          values |-> values]
    ELSE [count |-> 0, mean |-> Zero, min |-> 0, max |-> 0, values |-> <<>>]

analyze_results_by_variant(items, success_metrics) ==
    [variant \in Range(Variants) |->
        [metric \in Range(success_metrics) |->
            MetricStats(VariantData(items, variant, metric))]]

----------------------------------------------------------------------------
(* calculate_statistical_significance *)

Improvement_swapped(control_mean, treatment_mean) ==
    IF control_mean # Zero
    THEN RatMul(RatDiv(RatSub(control_mean, treatment_mean), control_mean), RatInt(100))
    ELSE Zero

\* improvement = ((treatment_mean - control_mean) / control_mean) * 100, or 0
Improvement(control_mean, treatment_mean) ==
    IF control_mean # Zero
    THEN RatMul(RatDiv(RatSub(treatment_mean, control_mean), control_mean), RatInt(100))
    ELSE Zero

SampleSizeAdequate_strict(control_values, treatment_values) ==
    Len(control_values) > MinSampleSize /\ Len(treatment_values) > MinSampleSize

SampleSizeAdequate(control_values, treatment_values) ==
    Len(control_values) >= MinSampleSize /\ Len(treatment_values) >= MinSampleSize

EffectSizeMeaningful_strict(improvement) ==
    RatGt(RatAbs(improvement), RatInt(EffectThreshold))

EffectSizeMeaningful(improvement) ==
    RatGeq(RatAbs(improvement), RatInt(EffectThreshold))

SignificanceOf(control, treatment) ==
    IF Len(control.values) > 0 /\ Len(treatment.values) > 0
    THEN LET improvement == Improvement(control.mean, treatment.mean)
             sample_size_adequate == SampleSizeAdequate(control.values, treatment.values)
             effect_size_meaningful == EffectSizeMeaningful(improvement)
         IN  [control_mean |-> control.mean,
              treatment_mean |-> treatment.mean,
              improvement_percentage |-> improvement,
              sample_size_adequate |-> sample_size_adequate,
              effect_size_meaningful |-> effect_size_meaningful,
              is_significant |-> sample_size_adequate /\ effect_size_meaningful,
              control_sample_size |-> Len(control.values),
              treatment_sample_size |-> Len(treatment.values)]
    ELSE [control_mean |-> Zero,
          treatment_mean |-> Zero,
          improvement_percentage |-> Zero,
          sample_size_adequate |-> FALSE,
          effect_size_meaningful |-> FALSE,
          is_significant |-> FALSE,
          control_sample_size |-> Len(control.values),
          treatment_sample_size |-> Len(treatment.values)]

calculate_statistical_significance(analysis) ==
    [metric \in DOMAIN analysis["control"] |->
        SignificanceOf(analysis["control"][metric], analysis["treatment"][metric])]

----------------------------------------------------------------------------
(* generate_test_recommendations *)

SignificantImprovements_any(significance) ==
    Cardinality({m \in DOMAIN significance :
        RatGt(significance[m].improvement_percentage, Zero)})

SignificantImprovements(significance) ==
    Cardinality({m \in DOMAIN significance :
        /\ significance[m].is_significant
        /\ RatGt(significance[m].improvement_percentage, Zero)})

SignificantDegradations(significance) ==
    Cardinality({m \in DOMAIN significance :
        /\ significance[m].is_significant
        /\ ~RatGt(significance[m].improvement_percentage, Zero)})

\* the reasons appended by the loop, in the order of the metrics; the
\* percentage printed in the text is left out
RECURSIVE ReasonsFrom(_, _, _)
ReasonsFrom(significance, metrics, i) ==
    IF i > Len(metrics) THEN <<>>
    ELSE LET sig_data == significance[metrics[i]]
             reason ==
                 IF sig_data.is_significant
                 THEN IF RatGt(sig_data.improvement_percentage, Zero)
                      THEN <<[reason |-> "Significant improvement", metric |-> metrics[i]]>>
                      ELSE <<[reason |-> "Significant degradation", metric |-> metrics[i]]>>
                 ELSE IF ~sig_data.sample_size_adequate
                      THEN <<[reason |-> "Insufficient sample size", metric |-> metrics[i]]>>
                      ELSE <<>>
         IN  reason \o ReasonsFrom(significance, metrics, i + 1)

Decide_improvement_first(significant_improvements, significant_degradations, significance) ==
    IF significant_improvements > 0
    THEN [action |-> "deploy_treatment", confidence |-> "high",
          next_steps |-> <<"Deploy treatment version to production">>]
    ELSE IF significant_degradations > 0
    THEN [action |-> "deploy_control", confidence |-> "high",
          next_steps |-> <<"Keep control version, treatment shows degradation">>]
    ELSE IF \E m \in DOMAIN significance : ~significance[m].sample_size_adequate
    THEN [action |-> "extend_test", confidence |-> "low",
          next_steps |-> <<"Extend test duration to gather more data">>]
    ELSE [action |-> "continue", confidence |-> "medium",
          next_steps |-> <<"Continue monitoring, no clear winner yet">>]

\* the if/elif chain that sets action, confidence and next_steps
Decide(significant_improvements, significant_degradations, significance) ==
    IF significant_improvements > 0 /\ significant_degradations = 0
    THEN [action |-> "deploy_treatment", confidence |-> "high",
          next_steps |-> <<"Deploy treatment version to production">>]
    ELSE IF significant_degradations > 0
    THEN [action |-> "deploy_control", confidence |-> "high",
          next_steps |-> <<"Keep control version, treatment shows degradation">>]
    ELSE IF \E m \in DOMAIN significance : ~significance[m].sample_size_adequate
    THEN [action |-> "extend_test", confidence |-> "low",
          next_steps |-> <<"Extend test duration to gather more data">>]
    ELSE [action |-> "continue", confidence |-> "medium",
          next_steps |-> <<"Continue monitoring, no clear winner yet">>]

generate_test_recommendations(significance, success_metrics) ==
    LET decision == Decide(SignificantImprovements(significance),
                           SignificantDegradations(significance), significance)
    IN  [action |-> decision.action,
         confidence |-> decision.confidence,
         reasons |-> ReasonsFrom(significance, success_metrics, 1),
         next_steps |-> decision.next_steps]

----------------------------------------------------------------------------
(* Initial values of the three groups of variables *)

NoOutput == [computed |-> FALSE]

InitStore ==
    /\ configs = [t \in TestIds |-> NoItem]
    /\ results = <<>>
    /\ now = 0
    /\ response = NoResponse
    /\ request = NoRequest

InitCalls == calls = <<>>

InitStatIdle ==
    /\ statItems = <<>>
    /\ statMetrics = DefaultSuccessMetrics
    /\ statOut = NoOutput

InitPermIdle ==
    /\ permItems = <<>>
    /\ permOut = NoOutput

InitDecideIdle ==
    /\ decideIn = NoOutput
    /\ decideOut = NoOutput

NoRun == [index |-> 0]

\* no assign_user invocation is under way
Idle == [pc |-> "idle"]
Invocations == {"invocation-1", "invocation-2"}
InitInflightIdle == inflight = [p \in Invocations |-> Idle]

InitRetrainIdle ==
    /\ perfMetrics = [model_name \in Models |-> <<>>]
    /\ trainingJobs = <<>>
    /\ notifications = <<>>
    /\ run = NoRun
    /\ runs = 0
    /\ retrainResponse = NoResponse
    /\ failedReads = {}

----------------------------------------------------------------------------
(* SpecStat: the significance engine on result lists drawn from a bounded set *)

SampleCounts == {0, MinSampleSize - 1, MinSampleSize}
SampleValues == {0, 95, 100, 105}

StatItem(variant, metric, value) ==
    [test_id |-> "3f2b8c1e-7a4d-4e9b-9c55-0d6a1b2e4f70", user_id |-> "user-527",
     variant |-> variant, metric_name |-> metric, metric_value |-> value]

\* n items of one variant and metric with the same value
Cell(variant, metric, shape) ==
    [i \in 1..shape[1] |-> StatItem(variant, metric, shape[2])]

CellShapes == {<<n, v>> \in SampleCounts \X SampleValues : n = 0 => v = 0}

\* at most one further item, of any variant and metric
OddValues == {100}
OddItems ==
    {<<>>} \cup {<<StatItem(Variants[k], DefaultSuccessMetrics[j], v)>> :
                    k \in 1..2, j \in 1..2, v \in OddValues}

InitStat ==
    /\ InitStore
    /\ InitCalls
    /\ InitPermIdle
    /\ InitDecideIdle
    /\ InitRetrainIdle
    /\ InitInflightIdle
    /\ statMetrics = DefaultSuccessMetrics
    /\ statOut = NoOutput
    /\ \E c1, c2, t1, t2 \in CellShapes, odd \in OddItems :
          statItems = Cell("control", statMetrics[1], c1)
                   \o Cell("treatment", statMetrics[1], t1)
                   \o Cell("control", statMetrics[2], c2)
                   \o Cell("treatment", statMetrics[2], t2)
                   \o odd

\* analyze_test_results, lines 259-266, on the drawn list
AnalyzeStat ==
    /\ statOut = NoOutput
    /\ \E analysis \in {analyze_results_by_variant(statItems, statMetrics)} :
       \E significance \in {calculate_statistical_significance(analysis)} :
       \E recommendations \in {generate_test_recommendations(significance, statMetrics)} :
           statOut' = [computed |-> TRUE,
                       analysis |-> analysis,
                       statistical_significance |-> significance,
                       recommendations |-> recommendations]
    /\ UNCHANGED <<configs, results, now, response, request, calls, statItems, statMetrics>>
    /\ UNCHANGED <<permVars, decideVars, retrainVars, inflight>>

NextStat == AnalyzeStat

SpecStat == InitStat /\ [][NextStat]_vars

----------------------------------------------------------------------------
(* SpecPerm: analyze_results_by_variant on a result list and on a reordering *)
(* of it, with the metric values the numbers DynamoDB returns and the        *)
(* statistics computed in double precision                                   *)

MaxPermLen == 3

\* the metric_value attributes of the stored items, as decimal numbers: the
\* control samples are fractions, the treatment samples whole numbers
ControlValues == {"0.1", "0.2", "0.3"}
TreatmentValues == {"1", "2"}

\* float(metric_value)
DecimalToFloat(d) ==
    CASE d = "0.1" -> FloatHex(<<9, 9, 9, 9, 9, 9, 9, 9, 9, 9, 9, 9, 10>>, -4)
      [] d = "0.2" -> FloatHex(<<9, 9, 9, 9, 9, 9, 9, 9, 9, 9, 9, 9, 10>>, -3)
      [] d = "0.3" -> FloatHex(<<3, 3, 3, 3, 3, 3, 3, 3, 3, 3, 3, 3, 3>>, -2)
      [] d = "1"   -> FloatHex(<<0, 0, 0, 0, 0, 0, 0, 0, 0, 0, 0, 0, 0>>, 0)
      [] d = "2"   -> FloatHex(<<0, 0, 0, 0, 0, 0, 0, 0, 0, 0, 0, 0, 0>>, 1)

\* sum(values): the values added to 0 from left to right
RECURSIVE FloatSumFrom(_, _, _)
FloatSumFrom(values, i, acc) ==
    IF i > Len(values) THEN acc ELSE FloatSumFrom(values, i + 1, FloatAdd(acc, values[i]))

FloatSum(values) == FloatSumFrom(values, 1, FloatZero)

\* min(values)
FloatMin_first(values) == values[1]

FloatMin(values) ==
    CHOOSE v \in Range(values) : \A w \in Range(values) : ~FloatLess(w, v)

\* max(values)
FloatMax(values) ==
    CHOOSE v \in Range(values) : \A w \in Range(values) : ~FloatLess(v, w)

\* the statistics of one variant and metric, lines 303-319
MetricStatsFloat(stored) ==
    LET values == [i \in 1..Len(stored) |-> DecimalToFloat(stored[i])]
    IN  IF Len(values) > 0
        THEN [count |-> Len(values),
              mean |-> FloatDivInt(FloatSum(values), Len(values)),
              min |-> FloatMin(values),
              max |-> FloatMax(values),
              values |-> values]
        ELSE [count |-> 0, mean |-> FloatZero, min |-> FloatZero, max |-> FloatZero,
              values |-> <<>>]

analyze_results_by_variant_float(items, success_metrics) ==
    [variant \in Range(Variants) |->
        [metric \in Range(success_metrics) |->
            MetricStatsFloat(VariantData(items, variant, metric))]]

PermItem(variant, value) ==
    [test_id |-> "3f2b8c1e-7a4d-4e9b-9c55-0d6a1b2e4f70", user_id |-> "user-527",
     variant |-> variant, metric_name |-> DefaultSuccessMetrics[1], metric_value |-> value]

PermItemKinds ==
    {PermItem("control", value) : value \in ControlValues}
        \cup {PermItem("treatment", value) : value \in TreatmentValues}

\* the reorderings of the positions 1..n
Reorderings(n) == {p \in [1..n -> 1..n] : \A i, j \in 1..n : p[i] = p[j] => i = j}

InitPerm ==
    /\ InitStore
    /\ InitCalls
    /\ InitStatIdle
    /\ InitDecideIdle
    /\ InitRetrainIdle
    /\ InitInflightIdle
    /\ permOut = NoOutput
    /\ \E n \in 0..MaxPermLen :
       \E items \in [1..n -> PermItemKinds], p \in Reorderings(n) :
           permItems = [first |-> items, second |-> [i \in 1..n |-> items[p[i]]]]

\* analyze_results_by_variant on each of the two lists
AnalyzePerm ==
    /\ permOut = NoOutput
    /\ permOut' = [computed |-> TRUE,
                   first |-> analyze_results_by_variant_float(permItems.first, statMetrics),
                   second |-> analyze_results_by_variant_float(permItems.second, statMetrics)]
    /\ UNCHANGED <<configs, results, now, response, request, calls,
                   statItems, statMetrics, statOut, permItems, decideVars, retrainVars, inflight>>

NextPerm == AnalyzePerm

SpecPerm == InitPerm /\ [][NextPerm]_vars

----------------------------------------------------------------------------
(* The handler workflow: one action per value of event['action'] *)

TestNames == {"ranking-v2"}
ControlVersions == {"v1"}
TreatmentVersions == {"v2"}
DurationDays == {1}                \* duration_days of the events, in days
MetricNames == {"recommendation_accuracy"}
MetricValues == {1}
StatusFilters == {None, "completed"}

StoreUnchanged == UNCHANGED <<configs, results, now>>
Event(user_id, model_name) == [user_id |-> user_id, model_name |-> model_name]
OthersUnchanged ==
    UNCHANGED <<calls, statItems, statMetrics, statOut, permVars, decideVars, retrainVars,
                   inflight>>

\* the response, tagged with the action that produced it
create_success_response(action, data) ==
    [action |-> action, statusCode |-> 200, success |-> TRUE, data |-> data]

create_error_response(action, status_code, message) ==
    [action |-> action, statusCode |-> status_code, success |-> FALSE, message |-> message]

\* create_ab_test
CreateTest(test_name, model_name, control_version, treatment_version, traffic_split, duration_days) ==
    /\ OthersUnchanged
    /\ request' = Event(None, model_name)
    /\ IF \E x \in {test_name, model_name, control_version, treatment_version} : Falsy(x)
       THEN /\ response' = create_error_response("create_test", 400,
                                                 "Missing required parameters")
            /\ StoreUnchanged
       ELSE \E test_id \in TestIds :
              \* uuid.uuid4(): an id no item has
              /\ configs[test_id] = NoItem
              /\ LET test_config ==
                         [test_id |-> test_id,
                          test_name |-> test_name,
                          model_name |-> model_name,
                          control_version |-> control_version,
                          treatment_version |-> treatment_version,
                          traffic_split |-> traffic_split,
                          status |-> "active",
                          end_date |-> now + duration_days,
                          success_metrics |-> DefaultSuccessMetrics,
                          created_at |-> now]
                 IN  /\ configs' = [configs EXCEPT ![test_id] = test_config]
                     /\ response' = create_success_response("create_test",
                                        [test_id |-> test_id, test_config |-> test_config])
              /\ UNCHANGED <<results, now>>

\* the items table.scan returns for status = 'active' AND model_name = :model_name
ActiveTests(model_name) ==
    {t \in TestIds :
        /\ configs[t] # NoItem
        /\ configs[t].status = "active"
        /\ Get(configs[t], "model_name") = model_name}

get_active_test_for_model_unfiltered(model_name) ==
    {configs[t] : t \in {u \in TestIds : /\ configs[u] # NoItem
                                         /\ Get(configs[u], "model_name") = model_name
                                         /\ now <= Get(configs[u], "end_date")}}

\* get_active_test_for_model: the tests the loop can return, one per scan
\* order; empty when it returns None
get_active_test_for_model(model_name) ==
    {configs[t] : t \in {u \in ActiveTests(model_name) : now <= configs[u].end_date}}

\* the model version of the variant
ModelVersion(active_test, variant) ==
    IF variant = "control" THEN active_test.control_version
    ELSE active_test.treatment_version

\* assign_user_to_test
AssignUser(user_id, model_name) ==
    /\ OthersUnchanged
    /\ request' = Event(user_id, model_name)
    /\ IF Falsy(user_id) \/ Falsy(model_name)
       THEN /\ response' = create_error_response("assign_user", 400,
                                                 "user_id and model_name are required")
            /\ StoreUnchanged
       ELSE IF get_active_test_for_model(model_name) = {}
       THEN /\ response' = create_success_response("assign_user",
                               [variant |-> "production", model_version |-> "latest",
                                test_id |-> None])
            /\ StoreUnchanged
       ELSE \E active_test \in get_active_test_for_model(model_name) :
              LET variant == determine_user_variant(user_id, active_test.test_id,
                                                    active_test.traffic_split)
                  model_version == ModelVersion(active_test, variant)
                  assignment_record == [test_id |-> active_test.test_id,
                                        user_id |-> user_id,
                                        variant |-> variant,
                                        model_version |-> model_version]
              IN  /\ Len(results) < MaxResults
                  /\ results' = Append(results, assignment_record)
                  /\ response' = create_success_response("assign_user",
                                     [test_id |-> active_test.test_id,
                                      variant |-> variant,
                                      model_version |-> model_version])
                  /\ UNCHANGED <<configs, now>>

\* record_test_result (the events of the model carry a metric_value, which may
\* be 0, and no 'context' key)
RecordResult(test_id, user_id, metric_name, metric_value) ==
    /\ OthersUnchanged
    /\ request' = Event(user_id, None)
    /\ IF Falsy(test_id) \/ Falsy(user_id) \/ Falsy(metric_name)
       THEN /\ response' = create_error_response("record_result", 400,
                                                 "Missing required parameters")
            /\ StoreUnchanged
       ELSE LET result_record == [test_id |-> test_id,
                                  user_id |-> user_id,
                                  metric_name |-> metric_name,
                                  metric_value |-> metric_value]
            IN  /\ Len(results) < MaxResults
                /\ results' = Append(results, result_record)
                /\ response' = create_success_response("record_result",
                                   [message |-> "Result recorded successfully",
                                    result_id |-> <<test_id, user_id, metric_name>>])
                /\ UNCHANGED <<configs, now>>

\* results_table.query(test_id = :test_id)
QueryResults(test_id) == SelectSeq(results, LAMBDA item : item.test_id = test_id)

\* an analysis that closes the test it analysed
AnalyzeTest_closing(test_id) ==
    /\ OthersUnchanged
    /\ request' = NoRequest
    /\ test_id \in TestIds
    /\ configs[test_id] # NoItem
    /\ configs' = [configs EXCEPT ![test_id].status = "completed"]
    /\ response' = create_success_response("analyze_test", [test_id |-> test_id])
    /\ UNCHANGED <<results, now>>

\* analyze_test_results
AnalyzeTest(test_id) ==
    /\ OthersUnchanged
    /\ request' = NoRequest
    /\ StoreUnchanged
    /\ IF Falsy(test_id)
       THEN response' = create_error_response("analyze_test", 400,
                                              "test_id is required")
       ELSE IF configs[test_id] = NoItem
       THEN response' = create_error_response("analyze_test", 404, "Test not found")
       ELSE IF "success_metrics" \notin DOMAIN configs[test_id]
       THEN \* KeyError, caught by the except clause
            response' = create_error_response("analyze_test", 500,
                                              "Failed to analyze test results")
       ELSE \E test_config \in {configs[test_id]} :
            \E analysis \in {analyze_results_by_variant(QueryResults(test_id),
                                                        test_config.success_metrics)} :
            \E significance \in {calculate_statistical_significance(analysis)} :
            \E recommendations \in {generate_test_recommendations(significance,
                                        test_config.success_metrics)} :
               response' = create_success_response("analyze_test",
                   [test_id |-> test_id,
                    test_config |-> test_config,
                    analysis |-> analysis,
                    statistical_significance |-> significance,
                    recommendations |-> recommendations,
                    total_participants |->
                        Cardinality({r.user_id : r \in Range(QueryResults(test_id))})])

\* end_ab_test: update_item sets the two attributes, and creates the item
\* when the key has none
EndTest(test_id) ==
    /\ OthersUnchanged
    /\ request' = NoRequest
    /\ IF Falsy(test_id)
       THEN /\ response' = create_error_response("end_test", 400,
                                                 "test_id is required")
            /\ StoreUnchanged
       ELSE /\ configs' = [configs EXCEPT ![test_id] =
                  IF @ = NoItem
                  THEN [test_id |-> test_id, status |-> "completed"]
                  ELSE [@ EXCEPT !.status = "completed"]]
            /\ response' = create_success_response("end_test",
                               [message |-> "Test has been ended", test_id |-> test_id])
            /\ UNCHANGED <<results, now>>

\* the items of a scan, with the status filter when one is given
ScanTests(status_filter) ==
    {t \in TestIds :
        /\ configs[t] # NoItem
        /\ (~Falsy(status_filter) /\ status_filter # "all")
              => configs[t].status = status_filter}

\* list_ab_tests: the scanned items sorted by created_at, newest first; items
\* of equal created_at stay in scan order, which the table does not fix
ListTests(status_filter) ==
    LET tests == ScanTests(status_filter)
    IN
    /\ OthersUnchanged
    /\ request' = NoRequest
    /\ StoreUnchanged
    /\ IF \E t \in tests : "created_at" \notin DOMAIN configs[t]
       THEN \* KeyError in the sort key, caught by the except clause
            response' = create_error_response("list_tests", 500,
                                              "Failed to list A/B tests")
       ELSE \E sorted \in [1..Cardinality(tests) -> tests] :
               /\ \A i, j \in DOMAIN sorted : i # j => sorted[i] # sorted[j]
               /\ \A i, j \in DOMAIN sorted :
                     i < j => configs[sorted[i]].created_at >= configs[sorted[j]].created_at
               /\ response' = create_success_response("list_tests",
                                  [tests |-> [i \in DOMAIN sorted |-> configs[sorted[i]]],
                                   count |-> Cardinality(tests)])

\* handler: any other value of event['action']
UnknownAction(action) ==
    /\ response' = create_error_response(action, 400, "Unknown action")
    /\ request' = NoRequest
    /\ StoreUnchanged
    /\ OthersUnchanged

\* time passes between invocations
Tick ==
    /\ now < MaxTime
    /\ now' = now + 1
    /\ UNCHANGED <<configs, results, response, request>>
    /\ OthersUnchanged

Init ==
    InitStore /\ InitCalls /\ InitStatIdle /\ InitPermIdle /\ InitDecideIdle /\ InitRetrainIdle
    /\ InitInflightIdle

Next ==
    \/ \E test_name \in TestNames, model_name \in TestedModels \cup {None},
          control_version \in ControlVersions, treatment_version \in TreatmentVersions,
          traffic_split \in TrafficSplits, duration_days \in DurationDays :
          CreateTest(test_name, model_name, control_version, treatment_version,
                     traffic_split, duration_days)
    \/ \E user_id \in Callers \cup {None}, model_name \in Models \cup {None} :
          AssignUser(user_id, model_name)
    \/ \E test_id \in TestIds \cup {None}, user_id \in Callers,
          metric_name \in MetricNames, metric_value \in MetricValues :
          RecordResult(test_id, user_id, metric_name, metric_value)
    \/ \E test_id \in TestIds \cup {None} : AnalyzeTest(test_id)
    \/ \E test_id \in TestIds \cup {None} : EndTest(test_id)
    \/ \E status_filter \in StatusFilters : ListTests(status_filter)
    \/ \E action \in {None, "delete_test"} : UnknownAction(action)
    \/ Tick

Spec == Init /\ [][Next]_vars

----------------------------------------------------------------------------
(* SpecVariant: determine_user_variant called directly, at any time and      *)
(* whatever the results table holds                                          *)

DetermineVariantCall(user_id, test_id, traffic_split) ==
    /\ Len(calls) < MaxCalls
    /\ calls' = Append(calls, [user_id |-> user_id,
                               test_id |-> test_id,
                               traffic_split |-> traffic_split,
                               variant |-> determine_user_variant(user_id, test_id,
                                                                  traffic_split)])
    /\ UNCHANGED <<configs, results, now, response, request,
                   statItems, statMetrics, statOut, permVars, decideVars, retrainVars, inflight>>

NextVariant ==
    \/ \E user_id \in Users, test_id \in TestIds, traffic_split \in Splits :
          DetermineVariantCall(user_id, test_id, traffic_split)
    \/ \E test_id \in TestIds, user_id \in Callers,
          metric_name \in MetricNames, metric_value \in MetricValues :
          RecordResult(test_id, user_id, metric_name, metric_value)
    \/ Tick

SpecVariant == Init /\ [][NextVariant]_vars

----------------------------------------------------------------------------
(* SpecSplit: create_test events that carry any integer traffic_split,       *)
(* followed by assignments to the tests they create                          *)

RequestedSplits == {-10, DefaultTrafficSplit, 150}   \* event['traffic_split']

NextSplit ==
    \/ \E test_name \in TestNames, model_name \in TestedModels,
          control_version \in ControlVersions, treatment_version \in TreatmentVersions,
          traffic_split \in RequestedSplits, duration_days \in DurationDays :
          CreateTest(test_name, model_name, control_version, treatment_version,
                     traffic_split, duration_days)
    \/ \E user_id \in Callers, model_name \in TestedModels :
          AssignUser(user_id, model_name)
    \/ Tick

SpecSplit == Init /\ [][NextSplit]_vars

----------------------------------------------------------------------------
(* SpecConcurrent: assign_user invocations running at the same time in       *)
(* separate execution environments, next to create_test and end_test.  An    *)
(* invocation touches the tables twice, in the scan of                       *)
(* get_active_test_for_model and in put_item; other invocations can run      *)
(* between the two.                                                          *)

ConcurrentUnchanged ==
    UNCHANGED <<now, response, request, calls, statItems, statMetrics, statOut,
                permVars, decideVars, retrainVars>>

\* assign_user_to_test up to the scan, lines 104-120: the invocation holds the
\* test the scan returned, or has returned the sentinel
AssignScan(p, user_id, model_name) ==
    /\ inflight[p] = Idle
    /\ \/ /\ get_active_test_for_model(model_name) = {}
          /\ inflight' = [inflight EXCEPT ![p] =
                 [pc |-> "returned", user_id |-> user_id, model_name |-> model_name,
                  response |-> create_success_response("assign_user",
                                   [variant |-> "production", model_version |-> "latest",
                                    test_id |-> None])]]
       \/ \E active_test \in get_active_test_for_model(model_name) :
             inflight' = [inflight EXCEPT ![p] =
                 [pc |-> "scanned", user_id |-> user_id, model_name |-> model_name,
                  active_test |-> active_test]]
    /\ UNCHANGED <<configs, results>>
    /\ ConcurrentUnchanged

\* the record of lines 131-138
AssignmentRecord(user_id, active_test) ==
    LET variant == determine_user_variant(user_id, active_test.test_id,
                                          active_test.traffic_split)
    IN  [test_id |-> active_test.test_id,
         user_id |-> user_id,
         variant |-> variant,
         model_version |-> ModelVersion(active_test, variant)]

\* put_item replaces what the table held
AssignPut_replacing(p) ==
    /\ inflight[p].pc = "scanned"
    /\ results' = <<AssignmentRecord(inflight[p].user_id, inflight[p].active_test)>>
    /\ inflight' = [inflight EXCEPT ![p] =
           [pc |-> "returned", user_id |-> inflight[p].user_id,
            model_name |-> inflight[p].model_name,
            response |-> create_success_response("assign_user",
                [test_id |-> inflight[p].active_test.test_id,
                 variant |-> "control",
                 model_version |-> inflight[p].active_test.control_version])]]
    /\ UNCHANGED configs
    /\ ConcurrentUnchanged

\* assign_user_to_test from the hashing to the response, lines 122-148
AssignPut(p) ==
    /\ inflight[p].pc = "scanned"
    /\ LET assignment_record ==
               AssignmentRecord(inflight[p].user_id, inflight[p].active_test)
       IN  /\ results' = Append(results, assignment_record)
           /\ inflight' = [inflight EXCEPT ![p] =
                  [pc |-> "returned", user_id |-> inflight[p].user_id,
                   model_name |-> inflight[p].model_name,
                   response |-> create_success_response("assign_user",
                       [test_id |-> assignment_record.test_id,
                        variant |-> assignment_record.variant,
                        model_version |-> assignment_record.model_version])]]
    /\ UNCHANGED configs
    /\ ConcurrentUnchanged

NextConcurrent ==
    \/ \E p \in Invocations, user_id \in Users, model_name \in TestedModels :
          AssignScan(p, user_id, model_name)
    \/ \E p \in Invocations : AssignPut(p)
    \/ \E test_name \in TestNames, model_name \in TestedModels,
          control_version \in ControlVersions, treatment_version \in TreatmentVersions,
          traffic_split \in TrafficSplits, duration_days \in DurationDays :
          CreateTest(test_name, model_name, control_version, treatment_version,
                     traffic_split, duration_days)
    \/ \E test_id \in TestIds : EndTest(test_id)

SpecConcurrent == Init /\ [][NextConcurrent]_vars

----------------------------------------------------------------------------
(* Model retraining trigger                                                  *)
(* (src/infrastructure/lambda/model_retraining_trigger/index.py):            *)
(* make_retraining_decision                                                  *)

\* the literals 0.3, 0.4, 0.2, 0.5 and 1.0 as the doubles Python reads them
LatencyWeight == FloatHex(<<3, 3, 3, 3, 3, 3, 3, 3, 3, 3, 3, 3, 3>>, -2)
ErrorRateWeight == FloatHex(<<9, 9, 9, 9, 9, 9, 9, 9, 9, 9, 9, 9, 10>>, -2)
FeatureDriftWeight == FloatHex(<<3, 3, 3, 3, 3, 3, 3, 3, 3, 3, 3, 3, 3>>, -2)
PredictionDriftWeight == FloatHex(<<3, 3, 3, 3, 3, 3, 3, 3, 3, 3, 3, 3, 3>>, -2)
AgeWeight == FloatHex(<<9, 9, 9, 9, 9, 9, 9, 9, 9, 9, 9, 9, 10>>, -3)
RecommendationFloor == FloatHex(<<3, 3, 3, 3, 3, 3, 3, 3, 3, 3, 3, 3, 3>>, -2)
SentimentFloor == FloatHex(<<0, 0, 0, 0, 0, 0, 0, 0, 0, 0, 0, 0, 0>>, -1)
MaxConfidence == FloatHex(<<0, 0, 0, 0, 0, 0, 0, 0, 0, 0, 0, 0, 0>>, 0)

\* degradation_analysis.get(key, {}).get('is_significant', False)
IsSignificant(degradation_analysis, key) ==
    /\ key \in DOMAIN degradation_analysis
    /\ "is_significant" \in DOMAIN degradation_analysis[key]
    /\ degradation_analysis[key].is_significant

\* analysis.get(key, False)
Flagged(analysis, key) == key \in DOMAIN analysis /\ analysis[key]

\* confidence += weight, when the condition holds
Add(confidence, condition, weight) ==
    IF condition THEN FloatAdd(confidence, weight) ELSE confidence

\* reasons.append(text), when the condition holds
AppendIf(reasons, condition, text) ==
    IF condition THEN Append(reasons, text) ELSE reasons

\* '; '.join(reasons)
RECURSIVE Join(_)
Join(reasons) ==
    IF Len(reasons) = 1 THEN reasons[1]
    ELSE reasons[1] \o "; " \o Join(Tail(reasons))

\* should_retrain as the five condition blocks leave it
ShouldRetrain_performance_only(latency, error_rate, feature_drift, prediction_drift, age) ==
    latency \/ error_rate \/ age

ShouldRetrain(latency, error_rate, feature_drift, prediction_drift, age) ==
    latency \/ error_rate \/ feature_drift \/ prediction_drift \/ age

\* auto_retrain as the five condition blocks leave it
AutoRetrain_any(latency, error_rate, feature_drift, prediction_drift, age) ==
    latency \/ error_rate \/ feature_drift \/ prediction_drift \/ age

AutoRetrain(latency, error_rate, feature_drift, prediction_drift, age) ==
    error_rate \/ age

\* the model-specific rules: TRUE when they assign should_retrain = True
ModelRule_zero_floor(model_name, confidence) ==
    IF model_name = "recommendation" THEN FloatGeq(confidence, FloatZero)
    ELSE IF model_name = "sentiment" THEN FloatGeq(confidence, SentimentFloor)
    ELSE FALSE

ModelRule(model_name, confidence) ==
    IF model_name = "recommendation" THEN FloatGeq(confidence, RecommendationFloor)
    ELSE IF model_name = "sentiment" THEN FloatGeq(confidence, SentimentFloor)
    ELSE FALSE

\* min(confidence, 1.0)
CapConfidence_none(confidence) == confidence

CapConfidence(confidence) ==
    IF FloatLess(MaxConfidence, confidence) THEN MaxConfidence ELSE confidence

make_retraining_decision(model_name, degradation_analysis, drift_analysis, age_analysis) ==
    LET latency == IsSignificant(degradation_analysis, "latency_degradation")
        error_rate == IsSignificant(degradation_analysis, "error_rate_degradation")
        feature_drift == Flagged(drift_analysis, "feature_drift_detected")
        prediction_drift == Flagged(drift_analysis, "prediction_drift_detected")
        age == Flagged(age_analysis, "age_based_retraining_needed")
        confidence ==
            Add(Add(Add(Add(Add(FloatZero,
                latency, LatencyWeight),
                error_rate, ErrorRateWeight),
                feature_drift, FeatureDriftWeight),
                prediction_drift, PredictionDriftWeight),
                age, AgeWeight)
        reasons ==
            AppendIf(AppendIf(AppendIf(AppendIf(AppendIf(<<>>,
                latency, "Significant latency degradation detected"),
                error_rate, "Significant error rate increase detected"),
                feature_drift, "Feature drift detected"),
                prediction_drift, "Prediction drift detected"),
                age, "Model age exceeds maximum threshold")
    IN  [should_retrain |->
             \/ ShouldRetrain(latency, error_rate, feature_drift, prediction_drift, age)
             \/ ModelRule(model_name, confidence),
         auto_retrain |->
             AutoRetrain(latency, error_rate, feature_drift, prediction_drift, age),
         confidence |-> CapConfidence(confidence),
         reason |-> IF reasons # <<>> THEN Join(reasons) ELSE "No retraining needed",
         analysis |-> [degradation |-> degradation_analysis,
                       drift |-> drift_analysis,
                       age |-> age_analysis]]

----------------------------------------------------------------------------
(* SpecDecide: make_retraining_decision on arguments drawn from a bounded set *)

ModelNames == Models \cup {"ranking"}

\* what analyze_performance_degradation can return for one indicator: no key,
\* or a dict whose is_significant is False or True
Indicators == {"absent", "insignificant", "significant"}

DegradationAnalysis(latency, error_rate) ==
    [key \in {k \in {"latency_degradation", "error_rate_degradation"} :
                 \/ k = "latency_degradation" /\ latency # "absent"
                 \/ k = "error_rate_degradation" /\ error_rate # "absent"} |->
        [is_significant |-> IF key = "latency_degradation"
                            THEN latency = "significant"
                            ELSE error_rate = "significant"]]

DriftAnalysis(feature_drift, prediction_drift) ==
    [feature_drift_detected |-> feature_drift,
     prediction_drift_detected |-> prediction_drift,
     data_quality_issues |-> FALSE]

AgeAnalysis(needed) == [age_based_retraining_needed |-> needed]

DecideArguments ==
    {[model_name |-> model_name,
      degradation_analysis |-> DegradationAnalysis(latency, error_rate),
      drift_analysis |-> DriftAnalysis(feature_drift, prediction_drift),
      age_analysis |-> AgeAnalysis(needed)] :
        model_name \in ModelNames, latency \in Indicators, error_rate \in Indicators,
        feature_drift \in BOOLEAN, prediction_drift \in BOOLEAN, needed \in BOOLEAN}

InitDecide ==
    /\ InitStore
    /\ InitCalls
    /\ InitStatIdle
    /\ InitPermIdle
    /\ InitRetrainIdle
    /\ InitInflightIdle
    /\ decideOut = NoOutput
    /\ decideIn \in DecideArguments

MakeDecision ==
    /\ decideOut = NoOutput
    /\ decideOut' = [computed |-> TRUE,
                     decision |-> make_retraining_decision(decideIn.model_name,
                                                           decideIn.degradation_analysis,
                                                           decideIn.drift_analysis,
                                                           decideIn.age_analysis)]
    /\ UNCHANGED <<configs, results, now, response, request, calls,
                   statItems, statMetrics, statOut, permVars, decideIn, retrainVars, inflight>>

NextDecide == MakeDecision

SpecDecide == InitDecide /\ [][NextDecide]_vars

----------------------------------------------------------------------------
(* evaluate_retraining_need and the analyses it calls.  The averages and     *)
(* percentages are exact fractions; the metric values of the model are       *)
(* whole numbers away from the thresholds.                                   *)

MinLatencyPoints == 5
RecentLatencyPoints == 3
LatencyThreshold == 25
MinErrorPoints == 3
RecentErrorPoints == 2
ErrorRateThreshold == 2

EmptyDict == [key \in {} |-> key]

RatAdd(a, b) == Rat(a.num * b.den + b.num * a.den, a.den * b.den)

RECURSIVE RatSumFrom(_, _)
RatSumFrom(values, i) ==
    IF i > Len(values) THEN Zero ELSE RatAdd(values[i], RatSumFrom(values, i + 1))

\* sum(values) / len(values)
RatAvg(values) == RatDiv(RatSumFrom(values, 1), RatInt(Len(values)))

\* the values of one metric type, sorted by timestamp
ValuesOfType(metrics, metric_type) ==
    LET of_type == SelectSeq(metrics, LAMBDA m : m.metric_type = metric_type)
        sorted == SortSeq(of_type, LAMBDA a, b : a.timestamp < b.timestamp)
    IN  [i \in 1..Len(sorted) |-> RatInt(sorted[i].metric_value)]

HasType(metrics, metric_type) == \E i \in DOMAIN metrics : metrics[i].metric_type = metric_type

\* lines 153-167
LatencyIndicator(metrics) ==
    LET latency_values == ValuesOfType(metrics, "ModelLatency")
        n == Len(latency_values)
    IN  IF HasType(metrics, "ModelLatency") /\ n >= MinLatencyPoints
        THEN LET recent_avg ==
                     RatDiv(RatSumFrom(SubSeq(latency_values, n - RecentLatencyPoints + 1, n), 1),
                            RatInt(RecentLatencyPoints))
                 historical_avg == RatAvg(SubSeq(latency_values, 1, n - RecentLatencyPoints))
             IN  IF RatGt(historical_avg, Zero)
                 THEN LET latency_increase ==
                              RatMul(RatDiv(RatSub(recent_avg, historical_avg),
                                            historical_avg), RatInt(100))
                      IN  [latency_degradation |->
                              [increase_percentage |-> latency_increase,
                               is_significant |->
                                   RatGt(latency_increase, RatInt(LatencyThreshold)),
                               recent_avg |-> recent_avg,
                               historical_avg |-> historical_avg]]
                 ELSE EmptyDict
        ELSE EmptyDict

\* the error rates of the points whose invocation count is positive
RECURSIVE ErrorRatesFrom(_, _, _)
ErrorRatesFrom(error_values, invocation_values, i) ==
    IF i > Len(error_values) \/ i > Len(invocation_values) THEN <<>>
    ELSE (IF RatGt(invocation_values[i], Zero)
          THEN <<RatMul(RatDiv(error_values[i], invocation_values[i]), RatInt(100))>>
          ELSE <<>>) \o ErrorRatesFrom(error_values, invocation_values, i + 1)

\* lines 169-190, with a history of 0 when there are no earlier rates
ErrorRateIndicator_zero_history(metrics) ==
    LET error_values == ValuesOfType(metrics, "ModelInvocation4XXErrors")
        invocation_values == ValuesOfType(metrics, "ModelInvocations")
        error_rates == ErrorRatesFrom(error_values, invocation_values, 1)
        n == Len(error_rates)
    IN  IF /\ HasType(metrics, "ModelInvocation4XXErrors")
           /\ HasType(metrics, "ModelInvocations")
           /\ Len(error_values) >= MinErrorPoints
           /\ Len(invocation_values) >= MinErrorPoints
           /\ n > 0
        THEN LET recent_error_rate ==
                     IF n >= RecentErrorPoints
                     THEN RatDiv(RatSumFrom(SubSeq(error_rates, n - RecentErrorPoints + 1, n), 1),
                                 RatInt(RecentErrorPoints))
                     ELSE error_rates[n]
                 historical_error_rate ==
                     IF n > RecentErrorPoints
                     THEN RatAvg(SubSeq(error_rates, 1, n - RecentErrorPoints))
                     ELSE Zero
             IN  [error_rate_degradation |->
                     [recent_error_rate |-> recent_error_rate,
                      historical_error_rate |-> historical_error_rate,
                      is_significant |->
                          RatGt(recent_error_rate,
                                RatAdd(historical_error_rate, RatInt(ErrorRateThreshold)))]]
        ELSE EmptyDict

\* lines 169-190
ErrorRateIndicator(metrics) ==
    LET error_values == ValuesOfType(metrics, "ModelInvocation4XXErrors")
        invocation_values == ValuesOfType(metrics, "ModelInvocations")
        error_rates == ErrorRatesFrom(error_values, invocation_values, 1)
        n == Len(error_rates)
    IN  IF /\ HasType(metrics, "ModelInvocation4XXErrors")
           /\ HasType(metrics, "ModelInvocations")
           /\ Len(error_values) >= MinErrorPoints
           /\ Len(invocation_values) >= MinErrorPoints
           /\ n > 0
        THEN LET recent_error_rate ==
                     IF n >= RecentErrorPoints
                     THEN RatDiv(RatSumFrom(SubSeq(error_rates, n - RecentErrorPoints + 1, n), 1),
                                 RatInt(RecentErrorPoints))
                     ELSE error_rates[n]
                 historical_error_rate ==
                     IF n > RecentErrorPoints
                     THEN RatAvg(SubSeq(error_rates, 1, n - RecentErrorPoints))
                     ELSE recent_error_rate
             IN  [error_rate_degradation |->
                     [recent_error_rate |-> recent_error_rate,
                      historical_error_rate |-> historical_error_rate,
                      is_significant |->
                          RatGt(recent_error_rate,
                                RatAdd(historical_error_rate, RatInt(ErrorRateThreshold)))]]
        ELSE EmptyDict

analyze_performance_degradation(metrics) ==
    LatencyIndicator(metrics) @@ ErrorRateIndicator(metrics)

\* the placeholder never reports drift; its fixed 'confidence' entry is left out
check_data_drift_indicators(model_name) ==
    [feature_drift_detected |-> FALSE,
     prediction_drift_detected |-> FALSE,
     data_quality_issues |-> FALSE]

\* the placeholder never reports an aged model; the dates are left out
check_model_age(model_name) ==
    [model_age_days |-> 15, max_age_days |-> 30, age_based_retraining_needed |-> FALSE]

\* the decision returned when the query gives no items, lines 102-108
NoDataDecision_auto ==
    [should_retrain |-> TRUE,
     reason |-> "No recent performance data available",
     confidence |-> FloatZero,
     auto_retrain |-> TRUE]

NoDataDecision ==
    [should_retrain |-> FALSE,
     reason |-> "No recent performance data available",
     confidence |-> FloatZero,
     auto_retrain |-> FALSE]

\* the decision returned by the except clause, lines 129-136
ErrorDecision ==
    [should_retrain |-> FALSE,
     reason |-> "Error in evaluation",
     confidence |-> FloatZero,
     auto_retrain |-> FALSE]

\* read is what table.query did: it raised, or it returned Items
evaluate_retraining_need(model_name, read) ==
    IF read.raised THEN ErrorDecision
    ELSE IF read.Items = <<>> THEN NoDataDecision
    ELSE make_retraining_decision(model_name,
                                  analyze_performance_degradation(read.Items),
                                  check_data_drift_indicators(model_name),
                                  check_model_age(model_name))

----------------------------------------------------------------------------
(* SpecRetrain: check_all_models_for_retraining, one loop iteration at a     *)
(* step, with every store and service call free to raise; and the A/B       *)
(* handlers' reads raising                                                   *)

MaxRuns == 1

models_to_check == <<"recommendation", "sentiment">>

Metric(metric_type, timestamp, metric_value) ==
    [metric_type |-> metric_type, timestamp |-> timestamp, metric_value |-> metric_value]

\* the items of a model's last 7 days: none; a flat latency; a latency up by
\* 30 percent; an error rate up from 0 to 10 percent; both
SteadyHistory ==
    <<Metric("ModelLatency", 1, 100), Metric("ModelLatency", 2, 100),
      Metric("ModelLatency", 3, 100), Metric("ModelLatency", 4, 100),
      Metric("ModelLatency", 5, 100)>>
SlowHistory ==
    <<Metric("ModelLatency", 1, 100), Metric("ModelLatency", 2, 100),
      Metric("ModelLatency", 3, 130), Metric("ModelLatency", 4, 130),
      Metric("ModelLatency", 5, 130)>>
FailingHistory ==
    <<Metric("ModelInvocation4XXErrors", 6, 0), Metric("ModelInvocations", 7, 100),
      Metric("ModelInvocation4XXErrors", 8, 10), Metric("ModelInvocations", 9, 100),
      Metric("ModelInvocation4XXErrors", 10, 10), Metric("ModelInvocations", 11, 100)>>
Histories == {<<>>, SteadyHistory, SlowHistory, FailingHistory, SlowHistory \o FailingHistory}

\* the retraining handler's response
retrain_success_response(data) == [statusCode |-> 200, success |-> TRUE, data |-> data]

AbUnchanged ==
    UNCHANGED <<configs, results, now, calls, statItems, statMetrics, statOut,
                permVars, decideVars, inflight>>

InitRetrain ==
    /\ InitStore
    /\ InitCalls
    /\ InitStatIdle
    /\ InitPermIdle
    /\ InitDecideIdle
    /\ InitInflightIdle
    /\ perfMetrics \in [Models -> Histories]
    /\ trainingJobs = <<>>
    /\ notifications = <<>>
    /\ run = NoRun
    /\ runs = 0
    /\ retrainResponse = NoResponse
    /\ failedReads = {}

\* handler with action check_retraining_needed, or with no action: the loop begins
BeginCheck ==
    /\ run = NoRun
    /\ runs < MaxRuns
    /\ runs' = runs + 1
    /\ run' = [index |-> 1, retraining_decisions |-> EmptyDict]
    /\ retrainResponse' = NoResponse
    /\ failedReads' = {}
    /\ UNCHANGED <<perfMetrics, trainingJobs, notifications, response, request>>
    /\ AbUnchanged

\* trigger_model_retraining called by the loop: the job and the notification
\* that SageMaker and SNS accepted
JobsAfter(model_name, reason, created) ==
    IF created
    THEN Append(trainingJobs, [model_name |-> model_name, reason |-> reason, run |-> runs])
    ELSE trainingJobs

NotificationsAfter_recommended(subject, model_name, published) ==
    IF published
    THEN Append(notifications, [subject |-> "Model Retraining Recommended",
                                model_name |-> model_name, run |-> runs])
    ELSE notifications

NotificationsAfter(subject, model_name, published) ==
    IF published
    THEN Append(notifications, [subject |-> subject, model_name |-> model_name, run |-> runs])
    ELSE notifications

\* one iteration of the loop over models_to_check
CheckModel ==
    /\ run # NoRun
    /\ run.index <= Len(models_to_check)
    /\ \E raised, created, published \in BOOLEAN :
          LET model_name == models_to_check[run.index]
              read == [raised |-> raised, Items |-> perfMetrics[model_name]]
              decision == evaluate_retraining_need(model_name, read)
              triggers == decision.should_retrain /\ decision.auto_retrain
              notifies == decision.should_retrain /\ ~decision.auto_retrain
              stored == IF triggers
                        THEN decision @@ [retraining_triggered |-> created]
                        ELSE decision
          IN  /\ trainingJobs' =
                    IF triggers THEN JobsAfter(model_name, decision.reason, created)
                    ELSE trainingJobs
              /\ notifications' =
                    IF triggers
                    THEN NotificationsAfter("Model Retraining Started", model_name,
                                            created /\ published)
                    ELSE IF notifies
                    THEN NotificationsAfter("Model Retraining Recommended", model_name,
                                            published)
                    ELSE notifications
              /\ run' = [index |-> run.index + 1,
                         retraining_decisions |->
                             run.retraining_decisions @@ (model_name :> stored)]
              /\ failedReads' =
                    IF raised
                    THEN failedReads \cup {[action |-> "check_retraining_needed",
                                            model_name |-> model_name]}
                    ELSE failedReads
    /\ UNCHANGED <<perfMetrics, runs, retrainResponse, response, request>>
    /\ AbUnchanged

\* the loop is over: the response (an error when a read had failed)
FinishCheck_failing ==
    /\ run # NoRun
    /\ run.index > Len(models_to_check)
    /\ retrainResponse' =
          IF failedReads # {}
          THEN [statusCode |-> 500, success |-> FALSE, message |-> "Failed to check models"]
          ELSE retrain_success_response([checked_models |-> models_to_check,
                                         retraining_decisions |-> run.retraining_decisions])
    /\ run' = NoRun
    /\ UNCHANGED <<perfMetrics, trainingJobs, notifications, runs, failedReads,
                   response, request>>
    /\ AbUnchanged

\* the loop is over: the response
FinishCheck ==
    /\ run # NoRun
    /\ run.index > Len(models_to_check)
    /\ retrainResponse' =
          retrain_success_response([checked_models |-> models_to_check,
                                    retraining_decisions |-> run.retraining_decisions])
    /\ run' = NoRun
    /\ UNCHANGED <<perfMetrics, trainingJobs, notifications, runs, failedReads,
                   response, request>>
    /\ AbUnchanged

\* assign_user when the scan of the config table raises
AssignUserReadFails(user_id, model_name) ==
    /\ run = NoRun
    /\ response' = create_error_response("assign_user", 500,
                                         "Failed to assign user to test")
    /\ request' = Event(user_id, model_name)
    /\ failedReads' = {[action |-> "assign_user", model_name |-> model_name]}
    /\ UNCHANGED <<perfMetrics, trainingJobs, notifications, run, runs, retrainResponse>>
    /\ AbUnchanged

\* analyze_test when get_item on the config table or the query of the results
\* table raises
AnalyzeTestReadFails(test_id) ==
    /\ run = NoRun
    /\ response' = create_error_response("analyze_test", 500,
                                         "Failed to analyze test results")
    /\ request' = NoRequest
    /\ failedReads' = {[action |-> "analyze_test", model_name |-> None]}
    /\ UNCHANGED <<perfMetrics, trainingJobs, notifications, run, runs, retrainResponse>>
    /\ AbUnchanged

NextRetrain ==
    \/ BeginCheck
    \/ CheckModel
    \/ FinishCheck
    \/ \E user_id \in Callers, model_name \in TestedModels :
          AssignUserReadFails(user_id, model_name)
    \/ \E test_id \in TestIds : AnalyzeTestReadFails(test_id)

SpecRetrain == InitRetrain /\ [][NextRetrain]_vars

----------------------------------------------------------------------------
(* SpecDegrade: the check on metric histories of every length around the     *)
(* minimum numbers of points and with averages on both sides of the          *)
(* thresholds; only 'recommendation' has metrics                             *)

\* n latency points: the last three are `recent`, the ones before `earlier`
LatencyHistory(n, earlier, recent) ==
    [i \in 1..n |-> Metric("ModelLatency", i,
                           IF i > n - RecentLatencyPoints THEN recent ELSE earlier)]

\* errors and invocations in turn; the first `idle` invocation points count 0
\* invocations, the others 100; the last two error points are `recent`, the
\* ones before 0
ErrorHistory(errors, invocations, idle, recent) ==
    [i \in 1..errors |->
        Metric("ModelInvocation4XXErrors", 10 + i,
               IF i > errors - RecentErrorPoints THEN recent ELSE 0)]
    \o [i \in 1..invocations |->
        Metric("ModelInvocations", 20 + i, IF i <= idle THEN 0 ELSE 100)]

LatencyHistories ==
    {<<>>} \cup {LatencyHistory(n, earlier, recent) :
                    n \in {4, 5, 6}, earlier \in {0, 100}, recent \in {125, 126}}

ErrorHistories ==
    {<<>>} \cup {ErrorHistory(errors, invocations, idle, recent) :
                    errors \in {2, 3, 4}, invocations \in {3, 4},
                    idle \in {0, 1, 2}, recent \in {2, 3}}

InitDegrade ==
    /\ InitStore
    /\ InitCalls
    /\ InitStatIdle
    /\ InitPermIdle
    /\ InitDecideIdle
    /\ InitInflightIdle
    /\ \E latency \in LatencyHistories, errors \in ErrorHistories :
          perfMetrics = [model_name \in Models |->
                            IF model_name = "recommendation" THEN latency \o errors
                            ELSE <<>>]
    /\ trainingJobs = <<>>
    /\ notifications = <<>>
    /\ run = NoRun
    /\ runs = 0
    /\ retrainResponse = NoResponse
    /\ failedReads = {}

NextDegrade ==
    \/ BeginCheck
    \/ CheckModel
    \/ FinishCheck

SpecDegrade == InitDegrade /\ [][NextDegrade]_vars

----------------------------------------------------------------------------
(* SpecTotal: every action of the two handlers, with store and service       *)
(* calls that succeed or raise.  The two functions share no table and no     *)
(* variable, so each is run from the initial state of the other.             *)

MaxJobs == 2          \* training jobs the trigger_retraining events create at most

AbActions ==
    {"create_test", "assign_user", "record_result", "analyze_test", "end_test",
     "list_tests"}
RetrainActions ==
    {"check_retraining_needed", "trigger_retraining", "check_training_status",
     "schedule_retraining"}

\* the retraining handler's error response, tagged with the action
retrain_error_response(action, status_code, message) ==
    [action |-> action, statusCode |-> status_code, success |-> FALSE, message |-> message]

RetrainOnly == UNCHANGED <<response, request>> /\ AbUnchanged

\* the retraining handler has not been invoked
RetrainUntouched ==
    /\ run = NoRun
    /\ runs = 0
    /\ retrainResponse = NoResponse
    /\ trainingJobs = <<>>
    /\ notifications = <<>>

\* the A/B test handler has not been invoked
AbUntouched == response = NoResponse

\* a table call of the operation raises and nothing catches it
AbStoreCallFails_escaping(action) ==
    /\ response' = [action |-> action, raised |-> "ClientError"]
    /\ request' = NoRequest
    /\ StoreUnchanged
    /\ OthersUnchanged

\* a table call of the operation (or json.dumps on what it returned) raises:
\* the except clause of the operation returns the 500 response
AbStoreCallFails(action) ==
    /\ response' = create_error_response(action, 500, "Failed")
    /\ request' = NoRequest
    /\ StoreUnchanged
    /\ OthersUnchanged

\* handler with action trigger_retraining: trigger_model_retraining(event)
TriggerRetraining(model_name, created, published) ==
    /\ run = NoRun
    /\ Len(trainingJobs) < MaxJobs
    /\ IF Falsy(model_name)
       THEN /\ retrainResponse' = retrain_error_response("trigger_retraining", 400,
                                                         "model_name is required")
            /\ UNCHANGED <<trainingJobs, notifications>>
       ELSE IF created
       THEN /\ trainingJobs' = JobsAfter(model_name, "Automatic retraining triggered", TRUE)
            /\ notifications' = NotificationsAfter("Model Retraining Started", model_name,
                                                   published)
            /\ retrainResponse' =
                  [action |-> "trigger_retraining"]
                  @@ retrain_success_response([model_name |-> model_name,
                                               status |-> "InProgress"])
       ELSE /\ retrainResponse' = retrain_error_response("trigger_retraining", 500,
                                                         "Failed to trigger retraining")
            /\ UNCHANGED <<trainingJobs, notifications>>
    /\ UNCHANGED <<perfMetrics, run, runs, failedReads>>
    /\ RetrainOnly

\* handler with action check_training_status: described is FALSE when
\* describe_training_job raises
CheckTrainingStatus(training_job_name, described, status) ==
    /\ run = NoRun
    /\ retrainResponse' =
          IF Falsy(training_job_name)
          THEN retrain_error_response("check_training_status", 400,
                                      "training_job_name is required")
          ELSE IF described
          THEN [action |-> "check_training_status"]
               @@ retrain_success_response([training_job_name |-> training_job_name,
                                            status |-> status])
          ELSE retrain_error_response("check_training_status", 500,
                                      "Failed to check training job status")
    /\ UNCHANGED <<perfMetrics, trainingJobs, notifications, run, runs, failedReads>>
    /\ RetrainOnly

\* handler with action schedule_retraining
ScheduleRetraining(model_name, schedule_time) ==
    /\ run = NoRun
    /\ retrainResponse' =
          IF Falsy(model_name) \/ Falsy(schedule_time)
          THEN retrain_error_response("schedule_retraining", 400,
                                      "model_name and schedule_time are required")
          ELSE [action |-> "schedule_retraining"]
               @@ retrain_success_response([model_name |-> model_name,
                                            scheduled_time |-> schedule_time,
                                            status |-> "scheduled"])
    /\ UNCHANGED <<perfMetrics, trainingJobs, notifications, run, runs, failedReads>>
    /\ RetrainOnly

\* the retraining handler with any other action
RetrainUnknownAction(action) ==
    /\ run = NoRun
    /\ retrainResponse' = retrain_error_response(action, 400, "Unknown action")
    /\ UNCHANGED <<perfMetrics, trainingJobs, notifications, run, runs, failedReads>>
    /\ RetrainOnly

\* the test_id of the events: one of the ids, or none
EventTestIds == {"a91d04c6-52be-4f18-8e3a-7c0f9b6d1e25", None}

InitTotal ==
    /\ InitStore
    /\ InitCalls
    /\ InitStatIdle
    /\ InitPermIdle
    /\ InitDecideIdle
    /\ InitInflightIdle
    /\ perfMetrics = [model_name \in Models |->
                         IF model_name = "recommendation" THEN FailingHistory
                         ELSE SlowHistory]
    /\ trainingJobs = <<>>
    /\ notifications = <<>>
    /\ run = NoRun
    /\ runs = 0
    /\ retrainResponse = NoResponse
    /\ failedReads = {}

NextTotal ==
    \/ \E test_name \in TestNames, model_name \in TestedModels \cup {None},
          control_version \in ControlVersions, treatment_version \in TreatmentVersions,
          traffic_split \in TrafficSplits, duration_days \in DurationDays :
          /\ RetrainUntouched
          /\ CreateTest(test_name, model_name, control_version, treatment_version,
                        traffic_split, duration_days)
    \/ \E user_id \in Callers \cup {None}, model_name \in TestedModels :
          RetrainUntouched /\ AssignUser(user_id, model_name)
    \/ \E test_id \in EventTestIds, user_id \in Callers,
          metric_name \in MetricNames, metric_value \in MetricValues :
          RetrainUntouched /\ RecordResult(test_id, user_id, metric_name, metric_value)
    \/ \E test_id \in EventTestIds : RetrainUntouched /\ AnalyzeTest(test_id)
    \/ \E test_id \in EventTestIds : RetrainUntouched /\ EndTest(test_id)
    \/ \E status_filter \in StatusFilters : RetrainUntouched /\ ListTests(status_filter)
    \/ \E action \in {None, "delete_test"} : RetrainUntouched /\ UnknownAction(action)
    \/ \E action \in AbActions : RetrainUntouched /\ AbStoreCallFails(action)
    \/ AbUntouched /\ BeginCheck
    \/ AbUntouched /\ CheckModel
    \/ AbUntouched /\ FinishCheck
    \/ \E model_name \in Models \cup {None}, created, published \in BOOLEAN :
          AbUntouched /\ TriggerRetraining(model_name, created, published)
    \/ \E training_job_name \in {None, "recommendation-retrain-20240101-000000"},
          described \in BOOLEAN, status \in {"InProgress", "Completed", "Failed"} :
          AbUntouched /\ CheckTrainingStatus(training_job_name, described, status)
    \/ \E model_name \in {None, "recommendation"},
          schedule_time \in {None, "2024-01-01T00:00:00"} :
          AbUntouched /\ ScheduleRetraining(model_name, schedule_time)
    \/ \E action \in {"delete_model"} : AbUntouched /\ RetrainUnknownAction(action)

SpecTotal == InitTotal /\ [][NextTotal]_vars

----------------------------------------------------------------------------
(* Properties of determine_user_variant (SpecVariant) *)

SameArguments(c1, c2) ==
    /\ c1.user_id = c2.user_id
    /\ c1.test_id = c2.test_id
    /\ c1.traffic_split = c2.traffic_split

\* C1: two calls of determine_user_variant with the same user id, test id and
\* traffic split return the same variant, whenever they are made and whatever
\* the results table holds at the time.
C1_Deterministic ==
    \A i, j \in DOMAIN calls :
        SameArguments(calls[i], calls[j]) => calls[i].variant = calls[j].variant

\* the same call made twice, by the user whose bucket is just below the split,
\* after the clock and the results table have changed
C1_Witness ==
    /\ now > 0
    /\ results # <<>>
    /\ \E i, j \in DOMAIN calls :
          /\ i < j
          /\ SameArguments(calls[i], calls[j])
          /\ calls[i].user_id = "user-527"
          /\ calls[i].test_id = "a91d04c6-52be-4f18-8e3a-7c0f9b6d1e25"
          /\ calls[i].traffic_split = 50
          /\ calls[j].variant = "treatment"

\* C2: with traffic split 0 every call returns control and with traffic split
\* 100 every call returns treatment.
C2_BoundarySplits ==
    \A i \in DOMAIN calls :
        /\ calls[i].traffic_split = 0 => calls[i].variant = "control"
        /\ calls[i].traffic_split = 100 => calls[i].variant = "treatment"

\* the user whose bucket is 0 called with split 0, and a call with split 100
C2_Witness ==
    /\ \E i \in DOMAIN calls :
          /\ calls[i].user_id = "user-527"
          /\ calls[i].test_id = "3f2b8c1e-7a4d-4e9b-9c55-0d6a1b2e4f70"
          /\ calls[i].traffic_split = 0
          /\ calls[i].variant = "control"
    /\ \E i \in DOMAIN calls :
          calls[i].traffic_split = 100 /\ calls[i].variant = "treatment"

\* int(md5("user_id:test_id").hexdigest(), 16) % 100 as Python computes it
Md5Bucket(user_id, test_id) ==
    IF user_id = "user-527"
    THEN IF test_id = "3f2b8c1e-7a4d-4e9b-9c55-0d6a1b2e4f70" THEN 0 ELSE 49
    ELSE IF test_id = "3f2b8c1e-7a4d-4e9b-9c55-0d6a1b2e4f70" THEN 50 ELSE 20

\* C3: the variant is treatment exactly when the bucket of the user and test,
\* a number in 0..99, is below the traffic split; so a user in treatment at one
\* split is in treatment at every larger split of the same test.
C3_ThresholdRule ==
    /\ \A i \in DOMAIN calls :
          /\ Md5Bucket(calls[i].user_id, calls[i].test_id) \in 0..99
          /\ calls[i].variant = "treatment"
                <=> Md5Bucket(calls[i].user_id, calls[i].test_id) < calls[i].traffic_split
          /\ calls[i].variant \in {"treatment", "control"}
    /\ \A i, j \in DOMAIN calls :
          (/\ calls[i].user_id = calls[j].user_id
           /\ calls[i].test_id = calls[j].test_id
           /\ calls[i].traffic_split <= calls[j].traffic_split
           /\ calls[i].variant = "treatment") => calls[j].variant = "treatment"

\* the user whose bucket is 50 is control at split 50 and treatment at 100
C3_Witness ==
    \E i, j \in DOMAIN calls :
        /\ calls[i].user_id = "user-437" /\ calls[j].user_id = "user-437"
        /\ calls[i].test_id = "3f2b8c1e-7a4d-4e9b-9c55-0d6a1b2e4f70"
        /\ calls[j].test_id = calls[i].test_id
        /\ calls[i].traffic_split = 50 /\ calls[i].variant = "control"
        /\ calls[j].traffic_split = 100 /\ calls[j].variant = "treatment"

----------------------------------------------------------------------------
(* Properties of the handler workflow (Spec) *)

IsAssignment(item) == "variant" \in DOMAIN item
IsSample(item) == "metric_name" \in DOMAIN item

\* the last response is an assignment to a test
AssignedResponse ==
    /\ response.action = "assign_user"
    /\ response.statusCode = 200
    /\ response.data.test_id # None

\* C4: any two assignment records stored for the same test and user carry the
\* same variant and model version, and an assign_user response for that pair
\* reports the variant of every stored record of the pair.
C4_AssignmentIdempotent ==
    /\ \A i, j \in DOMAIN results :
          (/\ IsAssignment(results[i]) /\ IsAssignment(results[j])
           /\ results[i].test_id = results[j].test_id
           /\ results[i].user_id = results[j].user_id)
             => /\ results[i].variant = results[j].variant
                /\ results[i].model_version = results[j].model_version
    /\ AssignedResponse =>
          \A i \in DOMAIN results :
              (/\ IsAssignment(results[i])
               /\ results[i].test_id = response.data.test_id
               /\ results[i].user_id = request.user_id)
                 => /\ results[i].variant = response.data.variant
                    /\ results[i].model_version = response.data.model_version

\* a user assigned twice to the same test, with time passing in between, and
\* in control
C4_Witness ==
    /\ AssignedResponse
    /\ now > 0
    /\ Len(results) = 2
    /\ IsAssignment(results[1]) /\ IsAssignment(results[2])
    /\ results[1].test_id = results[2].test_id
    /\ results[1].user_id = results[2].user_id
    /\ results[2].variant = "control"
    /\ configs[results[1].test_id].created_at = 0

\* a test assign_user can use for the model: active, of that model, not past
\* its end date
UsableTest(t, model_name) ==
    /\ configs[t] # NoItem
    /\ "model_name" \in DOMAIN configs[t]
    /\ configs[t].model_name = model_name
    /\ configs[t].status = "active"
    /\ now <= configs[t].end_date

Sentinel == [variant |-> "production", model_version |-> "latest", test_id |-> None]

\* C5: an assign_user invocation for a model that has no active test answers
\* 200 with the sentinel (production, latest, no test id) and writes nothing.
C5_SentinelWithoutTest ==
    [][\A user_id \in Callers, model_name \in Models :
          (/\ now' = now
           /\ response'.action = "assign_user"
           /\ request' = Event(user_id, model_name)
           /\ ~\E t \in TestIds : UsableTest(t, model_name))
             => /\ response'.statusCode = 200
                /\ response'.data = Sentinel
                /\ results' = results
                /\ configs' = configs]_vars

\* the sentinel was returned for a model whose only tests are ended or expired
C5_Witness ==
    /\ response.action = "assign_user"
    /\ response.statusCode = 200
    /\ response.data = Sentinel
    /\ \E t1, t2 \in TestIds :
          /\ configs[t1] # NoItem /\ configs[t2] # NoItem
          /\ Get(configs[t1], "model_name") = request.model_name
          /\ Get(configs[t2], "model_name") = request.model_name
          /\ configs[t1].status = "completed"
          /\ configs[t2].status = "active" /\ now > configs[t2].end_date
    /\ results # <<>>

\* the samples recorded for a test and metric by users assigned the variant
AssignedVariant(test_id, user_id, variant) ==
    \E i \in DOMAIN results :
        /\ IsAssignment(results[i])
        /\ results[i].test_id = test_id
        /\ results[i].user_id = user_id
        /\ results[i].variant = variant

SamplesOfVariant(test_id, variant, metric) ==
    SelectSeq(results, LAMBDA item :
        /\ IsSample(item)
        /\ item.test_id = test_id
        /\ item.metric_name = metric
        /\ AssignedVariant(test_id, item.user_id, variant))

\* C6: an analysis counts every recorded sample of the test in the statistics
\* (count, mean, min, max) of the variant its user was assigned.
C6_SamplesCountedByVariant ==
    (response.action = "analyze_test" /\ response.statusCode = 200) =>
        \A variant \in Range(Variants) :
        \A metric \in Range(response.data.test_config.success_metrics) :
            LET samples == SamplesOfVariant(response.data.test_id, variant, metric)
                values == [i \in DOMAIN samples |-> samples[i].metric_value]
                stats == response.data.analysis[variant][metric]
            IN  /\ stats.count = Len(values)
                /\ Len(values) > 0 =>
                      /\ stats.mean = Rat(Sum(values), Len(values))
                      /\ stats.min = Min(values)
                      /\ stats.max = Max(values)

----------------------------------------------------------------------------
(* Properties of the significance engine (SpecStat) *)

\* what the drawn list holds for a variant and a metric, counted value by value
\* from statItems and not through the analysis
SamplesOf(variant, metric) ==
    {i \in DOMAIN statItems :
        statItems[i].variant = variant /\ statItems[i].metric_name = metric}

SampleCount(variant, metric) == Cardinality(SamplesOf(variant, metric))

RECURSIVE WeightedSum(_, _, _)
WeightedSum(variant, metric, valueSet) ==
    IF valueSet = {} THEN 0
    ELSE LET v == CHOOSE x \in valueSet : TRUE
         IN  v * Cardinality({i \in SamplesOf(variant, metric) : statItems[i].metric_value = v})
             + WeightedSum(variant, metric, valueSet \ {v})

SampleSum(variant, metric) == WeightedSum(variant, metric, SampleValues \cup OddValues)

\* 100 * (treatment_mean - control_mean) / control_mean as numerator and denominator
ExpectedNum(metric) ==
    100 * (SampleSum("treatment", metric) * SampleCount("control", metric)
           - SampleSum("control", metric) * SampleCount("treatment", metric))
ExpectedDen(metric) == SampleCount("treatment", metric) * SampleSum("control", metric)

BothSampled(metric) ==
    SampleCount("control", metric) > 0 /\ SampleCount("treatment", metric) > 0

\* C7: for every metric with at least one sample in each variant, the reported
\* improvement_percentage is (treatment_mean - control_mean) / control_mean * 100
\* when the control mean is not zero, and 0 when it is zero.
C7_ImprovementFormula ==
    statOut.computed =>
        \A metric \in Range(statMetrics) :
            BothSampled(metric) =>
                LET improvement ==
                        statOut.statistical_significance[metric].improvement_percentage
                IN  IF SampleSum("control", metric) # 0
                    THEN /\ improvement.den > 0
                         /\ improvement = Rat(ExpectedNum(metric), ExpectedDen(metric))
                    ELSE improvement = Zero

\* a zero control mean with samples on both sides, and a non-zero improvement
\* that is not a whole number, have both been analysed
C7_Witness ==
    /\ statOut.computed
    /\ \E metric \in Range(statMetrics) :
          /\ BothSampled(metric)
          /\ SampleSum("control", metric) = 0
          /\ SampleSum("treatment", metric) > 0
          /\ statOut.statistical_significance[metric].improvement_percentage = Zero
    /\ \E metric \in Range(statMetrics) :
          /\ BothSampled(metric)
          /\ statOut.statistical_significance[metric].improvement_percentage.den > 1
          /\ statOut.statistical_significance[metric].improvement_percentage.num < 0

\* the effect, from the drawn samples, is at least 5 percent either way
ExpectedMeaningful(metric) ==
    /\ SampleSum("control", metric) # 0
    /\ Abs(ExpectedNum(metric)) >= EffectThreshold * Abs(ExpectedDen(metric))

\* C8: a metric is significant exactly when both variants have at least 30
\* samples and the absolute improvement is at least 5 percent, bounds included.
C8_SignificantIff ==
    statOut.computed =>
        \A metric \in Range(statMetrics) :
            statOut.statistical_significance[metric].is_significant
                <=> /\ SampleCount("control", metric) >= 30
                    /\ SampleCount("treatment", metric) >= 30
                    /\ BothSampled(metric)
                    /\ ExpectedMeaningful(metric)

\* control mean 100 and treatment mean 95 with exactly 30 samples each is
\* significant, and a large effect on 29 samples is not
C8_Witness ==
    /\ statOut.computed
    /\ \E metric \in Range(statMetrics) :
          /\ SampleCount("control", metric) = 30
          /\ SampleCount("treatment", metric) = 30
          /\ statOut.statistical_significance[metric].improvement_percentage
                = [num |-> -5, den |-> 1]
          /\ statOut.statistical_significance[metric].is_significant
    /\ \E metric \in Range(statMetrics) :
          /\ SampleCount("control", metric) = 29
          /\ SampleCount("treatment", metric) = 30
          /\ RatGt(statOut.statistical_significance[metric].improvement_percentage,
                   RatInt(EffectThreshold))
          /\ ~statOut.statistical_significance[metric].is_significant

SignificantUp(metric) ==
    /\ statOut.statistical_significance[metric].is_significant
    /\ statOut.statistical_significance[metric].improvement_percentage.num > 0

SignificantDown(metric) ==
    /\ statOut.statistical_significance[metric].is_significant
    /\ statOut.statistical_significance[metric].improvement_percentage.num < 0

\* C9: whenever some analysed metric is significant with negative improvement,
\* the recommendation is deploy_control with confidence high, whatever the
\* other metrics show.
C9_DegradationFirst ==
    statOut.computed =>
        ((\E metric \in Range(statMetrics) : SignificantDown(metric))
            => /\ statOut.recommendations.action = "deploy_control"
               /\ statOut.recommendations.confidence = "high")

\* one metric significantly better, the other significantly worse
C9_Witness ==
    /\ statOut.computed
    /\ \E m1, m2 \in Range(statMetrics) : SignificantUp(m1) /\ SignificantDown(m2)
    /\ statOut.recommendations.action = "deploy_control"

\* C10: the recommendation is deploy_treatment, with confidence high, if and
\* only if some metric is significant with positive improvement and no metric
\* is significant with negative improvement.
C10_DeployTreatmentIff ==
    statOut.computed =>
        /\ statOut.recommendations.action = "deploy_treatment"
              <=> /\ \E metric \in Range(statMetrics) : SignificantUp(metric)
                  /\ ~\E metric \in Range(statMetrics) : SignificantDown(metric)
        /\ statOut.recommendations.action = "deploy_treatment"
              => statOut.recommendations.confidence = "high"

\* one metric significantly better while the other has a positive effect on
\* too few samples
C10_Witness ==
    /\ statOut.computed
    /\ statOut.recommendations.action = "deploy_treatment"
    /\ \E m1, m2 \in Range(statMetrics) :
          /\ SignificantUp(m1)
          /\ ~statOut.statistical_significance[m2].is_significant
          /\ statOut.statistical_significance[m2].improvement_percentage.num > 0

\* the confidence the if/elif chain pairs with each action
FixedConfidence(action) ==
    CASE action = "deploy_treatment" -> "high"
      [] action = "deploy_control"   -> "high"
      [] action = "extend_test"      -> "low"
      [] action = "continue"         -> "medium"
      [] OTHER                       -> None

NoMetricSignificant ==
    \A metric \in Range(statMetrics) :
        ~statOut.statistical_significance[metric].is_significant

\* some metric has fewer than 30 samples in a variant, none at all included
SomeSampleTooSmall ==
    \E metric \in Range(statMetrics) :
        \/ SampleCount("control", metric) < 30
        \/ SampleCount("treatment", metric) < 30

\* C11: when no metric is significant the recommendation is extend_test with
\* confidence low if some metric lacks an adequate sample size (a metric with
\* no samples in a variant included), and continue with confidence medium
\* otherwise; the action is always one of continue, deploy_treatment,
\* deploy_control and extend_test, with the confidence fixed for that action.
C11_NoSignificantMetric ==
    statOut.computed =>
        /\ statOut.recommendations.action
              \in {"continue", "deploy_treatment", "deploy_control", "extend_test"}
        /\ statOut.recommendations.confidence
              = FixedConfidence(statOut.recommendations.action)
        /\ NoMetricSignificant =>
              statOut.recommendations.action
                 = IF SomeSampleTooSmall THEN "extend_test" ELSE "continue"

\* one metric with 30 samples each side and no meaningful effect, the other
\* with no treatment sample at all: extend_test with confidence low
C11_Witness ==
    /\ statOut.computed
    /\ NoMetricSignificant
    /\ \E m1, m2 \in Range(statMetrics) :
          /\ SampleCount("control", m1) = 30
          /\ SampleCount("treatment", m1) = 30
          /\ SampleCount("control", m2) = 30
          /\ SampleCount("treatment", m2) = 0
    /\ statOut.recommendations.action = "extend_test"
    /\ statOut.recommendations.confidence = "low"

----------------------------------------------------------------------------
(* Properties of make_retraining_decision (SpecDecide) *)

\* the five conditions of a call, in the order latency degradation, error-rate
\* degradation, feature drift, prediction drift, age exceeded
FiredIn(args) ==
    <<IsSignificant(args.degradation_analysis, "latency_degradation"),
      IsSignificant(args.degradation_analysis, "error_rate_degradation"),
      Flagged(args.drift_analysis, "feature_drift_detected"),
      Flagged(args.drift_analysis, "prediction_drift_detected"),
      Flagged(args.age_analysis, "age_based_retraining_needed")>>

Fired == FiredIn(decideIn)
FiredSet == {i \in 1..5 : Fired[i]}

\* the doubles 0.2, 0.3, 0.4, 0.7 and 1.0
Double02 == FloatHex(<<9, 9, 9, 9, 9, 9, 9, 9, 9, 9, 9, 9, 10>>, -3)
Double03 == FloatHex(<<3, 3, 3, 3, 3, 3, 3, 3, 3, 3, 3, 3, 3>>, -2)
Double04 == FloatHex(<<9, 9, 9, 9, 9, 9, 9, 9, 9, 9, 9, 9, 10>>, -2)
Double07 == FloatHex(<<6, 6, 6, 6, 6, 6, 6, 6, 6, 6, 6, 6, 6>>, -1)
Double10 == FloatHex(<<0, 0, 0, 0, 0, 0, 0, 0, 0, 0, 0, 0, 0>>, 0)

StatedWeights == <<Double03, Double04, Double03, Double03, Double02>>

\* the weights of the fired conditions added up in double precision, in the
\* order the conditions are listed
RECURSIVE WeightSum(_, _)
WeightSum(i, acc) ==
    IF i > 5 THEN acc
    ELSE WeightSum(i + 1, IF Fired[i] THEN FloatAdd(acc, StatedWeights[i]) ELSE acc)

\* C13: the confidence is the sum of the weights of the fired conditions
\* (0.3, 0.4, 0.3, 0.3, 0.2) capped at 1.0, lies in [0, 1], is 0.3 for latency
\* degradation alone and 0.7 for latency plus error-rate degradation.
C13_ConfidenceIsCappedSum ==
    decideOut.computed =>
        LET confidence == decideOut.decision.confidence
            sum == WeightSum(1, FloatZero)
        IN  /\ confidence = IF FloatLess(Double10, sum) THEN Double10 ELSE sum
            /\ FloatGeq(confidence, FloatZero)
            /\ FloatGeq(Double10, confidence)
            /\ FiredSet = {1} => confidence = Double03
            /\ FiredSet = {1, 2} => confidence = Double07

\* all five conditions fired: the sum 1.5 is returned as 1.0
C13_Witness ==
    /\ decideOut.computed
    /\ FiredSet = 1..5
    /\ decideOut.decision.confidence = Double10

StatedReasons ==
    <<"Significant latency degradation detected",
      "Significant error rate increase detected",
      "Feature drift detected",
      "Prediction drift detected",
      "Model age exceeds maximum threshold">>

\* the texts of the fired conditions from the i-th on, each followed by "; "
RECURSIVE ReasonText(_)
ReasonText(i) ==
    IF i > 5 THEN ""
    ELSE (IF Fired[i] THEN StatedReasons[i] \o "; " ELSE "") \o ReasonText(i + 1)

\* C14: whenever at least one of the five conditions fired, should_retrain is
\* true, whatever the model name, and the reason names every fired condition.
C14_AnyConditionRetrains ==
    decideOut.computed =>
        (FiredSet # {} =>
            /\ decideOut.decision.should_retrain
            /\ decideOut.decision.reason \o "; " = ReasonText(1))

\* feature drift alone on the sentiment model, whose confidence 0.3 is below
\* that model's 0.5
C14_Witness ==
    /\ decideOut.computed
    /\ decideIn.model_name = "sentiment"
    /\ FiredSet = {3}
    /\ decideOut.decision.should_retrain
    /\ decideOut.decision.reason = "Feature drift detected"

\* C15: auto_retrain is true if and only if error-rate degradation or the age
\* condition fired; latency degradation and drift alone never set it, and
\* auto_retrain implies should_retrain.
C15_AutoRetrainIff ==
    decideOut.computed =>
        /\ decideOut.decision.auto_retrain <=> (2 \in FiredSet \/ 5 \in FiredSet)
        /\ FiredSet \subseteq {1, 3, 4} => ~decideOut.decision.auto_retrain
        /\ decideOut.decision.auto_retrain => decideOut.decision.should_retrain

\* latency degradation and both drifts together leave auto_retrain false
C15_Witness ==
    /\ decideOut.computed
    /\ FiredSet = {1, 3, 4}
    /\ decideOut.decision.should_retrain
    /\ ~decideOut.decision.auto_retrain

\* C16: the per-model confidence floor is an independent check: among the
\* arguments a decision can be computed for there are some on which
\* should_retrain is returned true although the five conditions alone left it
\* false.
C16_FloorForcesRetrain ==
    decideOut.computed =>
        \E args \in DecideArguments :
            LET fired == FiredIn(args)
                decision == make_retraining_decision(args.model_name,
                                args.degradation_analysis, args.drift_analysis,
                                args.age_analysis)
            IN  /\ ~ShouldRetrain(fired[1], fired[2], fired[3], fired[4], fired[5])
                /\ decision.should_retrain

----------------------------------------------------------------------------
(* Properties of analyze_results_by_variant on reordered lists (SpecPerm) *)

\* the two analyses report the same statistic for every variant and metric
SameStatistic(field) ==
    \A variant \in Range(Variants), metric \in Range(statMetrics) :
        permOut.first[variant][metric][field] = permOut.second[variant][metric][field]

WholeNumbers == {"1", "2"}

\* every sample of the variant and metric in the list is a whole number
WholeValued(variant, metric) ==
    \A i \in DOMAIN permItems.first :
        (permItems.first[i].variant = variant /\ permItems.first[i].metric_name = metric)
            => permItems.first[i].metric_value \in WholeNumbers

----------------------------------------------------------------------------
(* Properties of the retraining check under failing reads (SpecRetrain) *)

\* the decisions of the invocation in progress, or of the one that returned last
Decisions ==
    IF run # NoRun THEN run.retraining_decisions
    ELSE IF retrainResponse # NoResponse THEN retrainResponse.data.retraining_decisions
    ELSE EmptyDict

\* the query for the model's metrics raised in that invocation
ReadFailedFor(model_name) ==
    [action |-> "check_retraining_needed", model_name |-> model_name] \in failedReads

\* the jobs and notifications of that invocation for the model
EffectsFor(model_name) ==
    {i \in DOMAIN trainingJobs :
        trainingJobs[i].model_name = model_name /\ trainingJobs[i].run = runs}
    \cup {i \in DOMAIN notifications :
        notifications[i].model_name = model_name /\ notifications[i].run = runs}

\* C17: when the read of a model's performance metrics fails or returns no
\* items, the decision for it has should_retrain false, auto_retrain false and
\* confidence 0.0, the check goes on to return its response, and no training
\* job is started and no notification sent for that model.
C17_NoDataNoAction ==
    /\ \A model_name \in DOMAIN Decisions :
          (ReadFailedFor(model_name) \/ perfMetrics[model_name] = <<>>) =>
              /\ ~Decisions[model_name].should_retrain
              /\ ~Decisions[model_name].auto_retrain
              /\ Decisions[model_name].confidence = FloatZero
              /\ EffectsFor(model_name) = {}
    /\ (run = NoRun /\ retrainResponse # NoResponse) =>
          /\ retrainResponse.statusCode = 200
          /\ DOMAIN retrainResponse.data.retraining_decisions = Range(models_to_check)

\* the read for recommendation raised although its error rate had risen, the
\* sentiment model has no items, and the check returned without any job or
\* notification
C17_Witness ==
    /\ run = NoRun
    /\ retrainResponse # NoResponse
    /\ ReadFailedFor("recommendation")
    /\ perfMetrics["recommendation"] = FailingHistory
    /\ ~ReadFailedFor("sentiment")
    /\ perfMetrics["sentiment"] = <<>>
    /\ trainingJobs = <<>>
    /\ notifications = <<>>

\* C19: a store read that fails is reported as an error: after assign_user,
\* analyze_test or check_retraining_needed met a failing read, the response is
\* not a success, and in particular no success response carries a retraining
\* decision for a model whose metrics could not be read.
C19_ReadFailureIsAnError ==
    /\ \A f \in failedReads :
          f.action \in {"assign_user", "analyze_test"} =>
              response.action = f.action /\ ~response.success
    /\ \A model_name \in Models :
          (ReadFailedFor(model_name) /\ run = NoRun /\ retrainResponse # NoResponse) =>
              ~(/\ retrainResponse.success
                /\ model_name \in DOMAIN retrainResponse.data.retraining_decisions)

----------------------------------------------------------------------------
(* Properties of the traffic split of created tests (SpecSplit) *)

ValidSplit(traffic_split) == traffic_split \in 0..100

\* C18: create_test with a traffic_split outside 0..100 is rejected and stores
\* nothing: no successful create_test response carries such a split, no stored
\* test config has one, and no assignment was computed by
\* determine_user_variant from one.
C18_SplitInRange ==
    /\ (response.action = "create_test" /\ response.success) =>
          ValidSplit(response.data.test_config.traffic_split)
    /\ \A t \in TestIds :
          (configs[t] # NoItem /\ "traffic_split" \in DOMAIN configs[t]) =>
              ValidSplit(configs[t].traffic_split)
    /\ \A i \in DOMAIN results :
          ("variant" \in DOMAIN results[i]) =>
              ValidSplit(configs[results[i].test_id].traffic_split)

----------------------------------------------------------------------------
(* Lifecycle of a test config (Spec) *)

ImmutableFields ==
    {"model_name", "control_version", "treatment_version", "traffic_split",
     "end_date", "success_metrics"}

\* C20: every config enters the store through create_test with status
\* 'active' (end_test never adds one); afterwards it stays in the store, its
\* status changes only from 'active' to 'completed', and its model_name,
\* control_version, treatment_version, traffic_split, end_date and
\* success_metrics never change.
C20_ConfigLifecycle ==
    [][\A t \in TestIds :
          /\ (configs[t] = NoItem /\ configs'[t] # NoItem) =>
                /\ response'.action = "create_test"
                /\ configs'[t].status = "active"
          /\ configs[t] # NoItem =>
                /\ configs'[t] # NoItem
                /\ configs'[t].status # configs[t].status =>
                      configs[t].status = "active" /\ configs'[t].status = "completed"
                /\ \A field \in ImmutableFields :
                      Get(configs'[t], field) = Get(configs[t], field)]_vars

----------------------------------------------------------------------------
(* Which test assign_user uses (Spec) *)

\* the step is an assign_user that wrote an assignment record
AssignmentWritten ==
    /\ Len(results') = Len(results) + 1
    /\ response'.action = "assign_user"
    /\ response'.success

\* C23: assign_user assigns a user to a test only if, when the test was looked
\* up, its status was 'active', its model_name was the requested model and the
\* time was not past its end_date; get_active_test_for_model never returns a
\* test that was ended or whose end_date has passed.
C23_AssignOnlyToActive ==
    [][/\ AssignmentWritten =>
             LET test == configs[response'.data.test_id]
             IN  /\ test # NoItem
                 /\ test.status = "active"
                 /\ Get(test, "model_name") = request'.model_name
                 /\ now <= test.end_date
       /\ \A model_name \in Models :
             \A test \in get_active_test_for_model(model_name) :
                 /\ test.status = "active"
                 /\ Get(test, "model_name") = model_name
                 /\ now <= test.end_date]_vars

\* a user was assigned to one test of the model while the other test of the
\* same model had been ended
C23_Witness ==
    /\ response.action = "assign_user"
    /\ response.success
    /\ response.data.test_id # None
    /\ \E t \in TestIds :
          /\ t # response.data.test_id
          /\ configs[t] # NoItem
          /\ configs[t].status = "completed"
          /\ Get(configs[t], "model_name") = request.model_name
          /\ configs[response.data.test_id].status = "active"

----------------------------------------------------------------------------
(* Effects of the operations on the two tables (Spec) *)

\* the step is an invocation of the handler (the clock is what Tick changes)
Invocation(action) == now' = now /\ response'.action = action

ReadOnlyInvocations ==
    \A action \in {"analyze_test", "list_tests"} :
        Invocation(action) => configs' = configs /\ results' = results

\* the step added exactly one record, an assignment, to the results table
OneAssignmentAdded ==
    /\ Len(results') = Len(results) + 1
    /\ SubSeq(results', 1, Len(results)) = results
    /\ "variant" \in DOMAIN results'[Len(results')]

\* C27 as stated: analyze_test and list_tests leave both tables unchanged, and
\* every successful assign_user adds exactly one assignment record to the
\* results table and leaves the configs table unchanged.
C27_NoSideEffects ==
    [][/\ ReadOnlyInvocations
       /\ (Invocation("assign_user") /\ response'.success) =>
             OneAssignmentAdded /\ configs' = configs]_vars

\* C27, amended: analyze_test and list_tests leave both tables unchanged; an
\* assign_user that finds an active test adds exactly one assignment record
\* and leaves the configs table unchanged; an assign_user that finds none, or
\* that is rejected, changes neither table.
C27_NoSideEffectsButTheAssignment ==
    [][/\ ReadOnlyInvocations
       /\ Invocation("assign_user") =>
             /\ configs' = configs
             /\ IF response'.success /\ response'.data.test_id # None
                THEN OneAssignmentAdded
                ELSE results' = results]_vars

\* an assignment was added behind a recorded result of the same test, and the
\* test is still as create_test stored it
C27_Witness ==
    /\ response.action = "assign_user"
    /\ response.success
    /\ response.data.test_id # None
    /\ Len(results) = 2
    /\ "metric_name" \in DOMAIN results[1]
    /\ "variant" \in DOMAIN results[2]
    /\ results[2].test_id = response.data.test_id
    /\ configs[response.data.test_id].status = "active"

----------------------------------------------------------------------------
(* How many tests a model has (Spec) *)

\* the answers assign_user can give the user for the model on this store
AssignmentsOn(user_id, model_name) ==
    {<<test.test_id, determine_user_variant(user_id, test.test_id, test.traffic_split)>> :
        test \in get_active_test_for_model(model_name)}

\* C30: after any sequence of create_test and end_test there is at most one
\* active, unexpired test per model_name, so assign_user has one answer
\* (test_id and variant) for a user and a model on a given store.
C30_OneActiveTestPerModel ==
    \A model_name \in Models :
        /\ Cardinality({test.test_id : test \in get_active_test_for_model(model_name)}) <= 1
        /\ \A user_id \in Callers : Cardinality(AssignmentsOn(user_id, model_name)) <= 1

----------------------------------------------------------------------------
(* The model name in make_retraining_decision (SpecDecide) *)

\* the decision for the same three analyses under another model name
DecisionFor(model_name) ==
    make_retraining_decision(model_name, decideIn.degradation_analysis,
                             decideIn.drift_analysis, decideIn.age_analysis)

----------------------------------------------------------------------------
(* What the retraining check does for a model (SpecRetrain) *)

\* a training job of this invocation for the model (a request that SageMaker
\* refused leaves only the retraining_triggered entry of the decision)
JobRequested(model_name) ==
    \E i \in DOMAIN trainingJobs :
        trainingJobs[i].model_name = model_name /\ trainingJobs[i].run = runs

\* a notification of this invocation for the model, with the subject
Notified(subject, model_name) ==
    \E i \in DOMAIN notifications :
        /\ notifications[i].model_name = model_name
        /\ notifications[i].run = runs
        /\ notifications[i].subject = subject

\* C24: in check_all_models_for_retraining a training job is requested for a
\* model only if its decision has should_retrain and auto_retrain, a
\* manual-review notification is sent only if it has should_retrain and not
\* auto_retrain, the two never both happen for one model in one run, and
\* neither happens when should_retrain is false (nor before the model is
\* evaluated).
C24_ActionsFollowDecision ==
    \A model_name \in Models :
        IF model_name \in DOMAIN Decisions
        THEN LET decision == Decisions[model_name]
             IN  /\ (\/ JobRequested(model_name)
                      \/ "retraining_triggered" \in DOMAIN decision) =>
                        decision.should_retrain /\ decision.auto_retrain
                 /\ Notified("Model Retraining Recommended", model_name) =>
                        decision.should_retrain /\ ~decision.auto_retrain
                 /\ ~(/\ \/ JobRequested(model_name)
                         \/ "retraining_triggered" \in DOMAIN decision
                      /\ Notified("Model Retraining Recommended", model_name))
                 /\ ~decision.should_retrain => EffectsFor(model_name) = {}
        ELSE EffectsFor(model_name) = {}

\* one check requested a job for recommendation, whose error rate had risen,
\* and sent the manual-review notification for sentiment, whose latency had
\* risen
C24_Witness ==
    /\ run = NoRun
    /\ retrainResponse # NoResponse
    /\ JobRequested("recommendation")
    /\ Notified("Model Retraining Started", "recommendation")
    /\ ~Notified("Model Retraining Recommended", "recommendation")
    /\ Notified("Model Retraining Recommended", "sentiment")
    /\ ~JobRequested("sentiment")
    /\ Decisions["sentiment"].should_retrain
    /\ ~Decisions["sentiment"].auto_retrain

----------------------------------------------------------------------------
(* One model's failure and the other model (SpecRetrain) *)

\* the check has returned and failedReads still describes it
CheckReturned ==
    /\ run = NoRun
    /\ retrainResponse # NoResponse
    /\ \A f \in failedReads : f.action = "check_retraining_needed"

\* the decision the model gets from its own read alone
OwnDecision(model_name) ==
    IF ReadFailedFor(model_name) THEN ErrorDecision
    ELSE IF perfMetrics[model_name] = <<>> THEN NoDataDecision
    ELSE make_retraining_decision(model_name,
             analyze_performance_degradation(perfMetrics[model_name]),
             check_data_drift_indicators(model_name), check_model_age(model_name))

\* C25: check_all_models_for_retraining isolates failures per model: whatever
\* failed for 'recommendation' (the read of its metrics, the start of its
\* training job, its notification), 'sentiment' is evaluated on its own
\* metrics, and the response is a 200 with a decision for both models.
C25_FailuresIsolated ==
    CheckReturned =>
        /\ retrainResponse.statusCode = 200
        /\ retrainResponse.success
        /\ DOMAIN retrainResponse.data.retraining_decisions =
               {"recommendation", "sentiment"}
        /\ \A model_name \in {"recommendation", "sentiment"} :
              \A key \in DOMAIN OwnDecision(model_name) :
                  retrainResponse.data.retraining_decisions[model_name][key] =
                      OwnDecision(model_name)[key]

\* the training job for recommendation could not be started, and sentiment
\* was evaluated all the same and got its manual-review notification
C25_Witness ==
    /\ CheckReturned
    /\ Decisions["recommendation"].should_retrain
    /\ Decisions["recommendation"].auto_retrain
    /\ ~Decisions["recommendation"].retraining_triggered
    /\ ~JobRequested("recommendation")
    /\ Decisions["sentiment"].should_retrain
    /\ Notified("Model Retraining Recommended", "sentiment")

----------------------------------------------------------------------------
(* The history analyze_performance_degradation needs (SpecDegrade) *)

\* the values of one metric type in timestamp order, as whole numbers
PointsOf(metrics, metric_type) ==
    LET sorted == SortSeq(SelectSeq(metrics, LAMBDA m : m.metric_type = metric_type),
                          LAMBDA a, b : a.timestamp < b.timestamp)
    IN  [i \in 1..Len(sorted) |-> sorted[i].metric_value]

RECURSIVE IntSum(_, _, _)
IntSum(values, first, last) ==
    IF first > last THEN 0 ELSE values[first] + IntSum(values, first + 1, last)

\* at least 5 latency points, a positive average before the last 3, and an
\* average of the last 3 more than 25% above it: recent/3 > 1.25 * earlier/(n-3)
LatencyEvidence(metrics) ==
    LET points == PointsOf(metrics, "ModelLatency")
        n == Len(points)
        earlier == IntSum(points, 1, n - 3)
        recent == IntSum(points, n - 2, n)
    IN  /\ n >= 5
        /\ earlier > 0
        /\ recent * (n - 3) * 4 > 5 * earlier * 3

\* the error rates, in percent, that can be computed: error points over
\* invocation points of the same rank, where the invocations are positive
ComputedRates(metrics) ==
    LET errors == PointsOf(metrics, "ModelInvocation4XXErrors")
        invocations == PointsOf(metrics, "ModelInvocations")
        both == IF Len(errors) < Len(invocations) THEN Len(errors) ELSE Len(invocations)
        ranks == SelectSeq([i \in 1..both |-> i], LAMBDA i : invocations[i] > 0)
    IN  [k \in 1..Len(ranks) |-> Rat(100 * errors[ranks[k]], invocations[ranks[k]])]

\* at least 3 error and 3 invocation points, at least 3 computed rates, and an
\* average of the last 2 rates more than 2 points above that of the earlier
ErrorRateEvidence(metrics) ==
    LET rates == ComputedRates(metrics)
        n == Len(rates)
    IN  /\ Len(PointsOf(metrics, "ModelInvocation4XXErrors")) >= 3
        /\ Len(PointsOf(metrics, "ModelInvocations")) >= 3
        /\ n > 2
        /\ RatGt(RatAvg(SubSeq(rates, n - 1, n)),
                 RatAdd(RatAvg(SubSeq(rates, 1, n - 2)), RatInt(2)))

\* the analysis inside the decision the check made for the model
DegradationOf(model_name) == Decisions[model_name].analysis.degradation

\* C26: analyze_performance_degradation flags latency degradation only with
\* at least 5 latency points, a positive average of the points before the last
\* 3 and an average of the last 3 more than 25% above it; it flags error-rate
\* degradation only with at least 3 error and 3 invocation points and an
\* average of the last 2 computed rates more than 2 points above the average
\* of the earlier ones, hence never when 2 or fewer rates could be computed.
C26_FlagsNeedHistory ==
    \A model_name \in DOMAIN Decisions :
        "analysis" \in DOMAIN Decisions[model_name] =>
            /\ IsSignificant(DegradationOf(model_name), "latency_degradation") =>
                   LatencyEvidence(perfMetrics[model_name])
            /\ IsSignificant(DegradationOf(model_name), "error_rate_degradation") =>
                   ErrorRateEvidence(perfMetrics[model_name])

\* both flags raised on the shortest histories that allow them: 5 latency
\* points, and 4 error and invocation points of which 3 give a rate
C26_Witness ==
    /\ "recommendation" \in DOMAIN Decisions
    /\ perfMetrics["recommendation"] =
           LatencyHistory(5, 100, 126) \o ErrorHistory(4, 4, 1, 3)
    /\ "analysis" \in DOMAIN Decisions["recommendation"]
    /\ IsSignificant(DegradationOf("recommendation"), "latency_degradation")
    /\ IsSignificant(DegradationOf("recommendation"), "error_rate_degradation")
    /\ Len(ComputedRates(perfMetrics["recommendation"])) = 3

----------------------------------------------------------------------------
(* Concurrent invocations (SpecConcurrent) *)

\* the invocation has returned an assignment to a test
Assigned(p) ==
    /\ inflight[p].pc = "returned"
    /\ inflight[p].response.data.test_id # None

\* the variant the hash rule gives the invocation's user in the test it names
VariantAlone(p) ==
    LET test_id == inflight[p].response.data.test_id
    IN  IF HashPercentage(inflight[p].user_id, test_id) < configs[test_id].traffic_split
        THEN "treatment" ELSE "control"

\* the record a sequential execution writes for the invocation
RecordAlone(p) ==
    LET test == configs[inflight[p].response.data.test_id]
    IN  [test_id |-> test.test_id,
         user_id |-> inflight[p].user_id,
         variant |-> VariantAlone(p),
         model_version |-> IF VariantAlone(p) = "control" THEN test.control_version
                           ELSE test.treatment_version]

\* C21: concurrent assign_user invocations are independent: under every
\* interleaving each invocation returns the variant it returns when run alone,
\* and the records written are those a sequential execution writes, one for
\* each invocation that returned an assignment and no other.
C21_ConcurrentAssignIndependent ==
    LET assigned == {p \in Invocations : Assigned(p)}
    IN  /\ \A p \in assigned :
              /\ inflight[p].response.data.variant = VariantAlone(p)
              /\ inflight[p].response.data.model_version = RecordAlone(p).model_version
        /\ Len(results) = Cardinality(assigned)
        /\ \E written \in [assigned -> DOMAIN results] :
              /\ \A p, q \in assigned : p # q => written[p] # written[q]
              /\ \A p \in assigned : results[written[p]] = RecordAlone(p)

\* two invocations for different users ran against the same test and both
\* returned; the table holds their two records
C21_Witness ==
    /\ \A p \in Invocations : Assigned(p)
    /\ inflight["invocation-1"].user_id # inflight["invocation-2"].user_id
    /\ inflight["invocation-1"].response.data.test_id =
           inflight["invocation-2"].response.data.test_id
    /\ Len(results) = 2
    /\ results[1].user_id # results[2].user_id

\* C29: under every interleaving of assign_user and end_test, no assignment
\* record for a test is written to the results table once end_test has set
\* that test's status to 'completed'.
C29_NoAssignmentAfterEnd ==
    [][Len(results') > Len(results) =>
          configs[results'[Len(results')].test_id].status # "completed"]_vars

----------------------------------------------------------------------------
(* The handlers always answer (SpecTotal) *)

StatusCodes == {200, 400, 404, 500}

\* a response of a handler: a structured result with one of the status codes
Structured(r) == "statusCode" \in DOMAIN r /\ r.statusCode \in StatusCodes

\* C22: every invocation of the A/B test handler and of the retraining
\* handler, for a known, unknown or missing action and whatever the store
\* calls do, ends with a structured response whose statusCode is 200, 400, 404
\* or 500 (no exception leaves the handler); an unknown action yields 400 and
\* writes nothing.
C22_HandlersTotal ==
    [][/\ response' # NoResponse => Structured(response')
       /\ retrainResponse' # NoResponse => Structured(retrainResponse')
       /\ (response' # response /\ response'.action \notin AbActions) =>
             /\ response'.statusCode = 400
             /\ configs' = configs
             /\ results' = results
       /\ (/\ retrainResponse' # retrainResponse
           /\ retrainResponse' # NoResponse
           /\ "action" \in DOMAIN retrainResponse'
           /\ retrainResponse'.action \notin RetrainActions) =>
             /\ retrainResponse'.statusCode = 400
             /\ UNCHANGED <<perfMetrics, trainingJobs, notifications>>]_vars

\* the A/B test handler answered 500 after a table call raised
C22_Witness ==
    /\ response.action = "end_test"
    /\ response.statusCode = 500
    /\ \E t \in TestIds : configs[t] # NoItem /\ configs[t].status = "active"

====
